---- MODULE Spec2Model ----
(***************************************************************************)
(* Model of the package-indexing engine of PyPI-clone                      *)
(* (src/package_manager.py, class PackageManager).                          *)
(*                                                                         *)
(* Python strings are sequences of one-character strings, so that the      *)
(* textual operations of the code (split, endswith, lower, replace, the    *)
(* substring test `in`) are computed and not assumed.  Python dicts are    *)
(* functions whose domain is the set of keys present.                      *)
(***************************************************************************)
EXTENDS Integers, Sequences, FiniteSets, TLC

(***************************************************************************)
(* Bounds of the model.                                                    *)
(***************************************************************************)
\* Number of file-system mutations (each takes a fresh modification time).
MaxClock == 3
\* Number of tokens that POST /api/tokens creates.
MaxCreated == 1
\* Number of files in a storage tree that exists before construction.
MaxFiles == 2
\* Number of lines that follow a Description line of a metadata text.
MaxLines == 3

(***************************************************************************)
(* Python str operations.                                                  *)
(***************************************************************************)
Upper == <<"A","B","C","D","E","F","G","H","I","J","K","L","M",
           "N","O","P","Q","R","S","T","U","V","W","X","Y","Z">>
LowerOf == <<"a","b","c","d","e","f","g","h","i","j","k","l","m",
             "n","o","p","q","r","s","t","u","v","w","x","y","z">>

\* str.lower() on one character
LowerChar(c) ==
    IF \E i \in 1..26 : Upper[i] = c
    THEN LowerOf[CHOOSE i \in 1..26 : Upper[i] = c]
    ELSE c

\* str.lower()
Lower(s) == [i \in 1..Len(s) |-> LowerChar(s[i])]

\* s[a:b] with 1-based inclusive positions; empty when a > b
Slice(s, a, b) == IF a > b THEN <<>> ELSE SubSeq(s, a, b)

\* str.startswith / str.endswith
StartsWith(s, pre) ==
    /\ Len(pre) <= Len(s)
    /\ Slice(s, 1, Len(pre)) = pre

EndsWith(s, suf) ==
    /\ Len(suf) <= Len(s)
    /\ Slice(s, Len(s) - Len(suf) + 1, Len(s)) = suf

\* positions at which sub occurs in s
Occurrences(s, sub) ==
    {i \in 1..(Len(s) - Len(sub) + 1) : Slice(s, i, i + Len(sub) - 1) = sub}

\* the Python test `sub in s`
Contains(s, sub) == sub = <<>> \/ Occurrences(s, sub) # {}

Min(S) == CHOOSE x \in S : \A y \in S : x <= y
Max(S) == CHOOSE x \in S : \A y \in S : x >= y

\* str.replace(sub, new), sub non-empty: leftmost non-overlapping occurrences
RECURSIVE Replace(_, _, _)
Replace(s, sub, new) ==
    IF Occurrences(s, sub) = {} THEN s
    ELSE LET i == Min(Occurrences(s, sub))
         IN  Slice(s, 1, i - 1) \o new
               \o Replace(Slice(s, i + Len(sub), Len(s)), sub, new)

\* str.split(ch): the fields between the occurrences of the character ch
RECURSIVE Split(_, _)
Split(s, ch) ==
    IF Occurrences(s, <<ch>>) = {} THEN <<s>>
    ELSE LET i == Min(Occurrences(s, <<ch>>))
         IN  <<Slice(s, 1, i - 1)>> \o Split(Slice(s, i + 1, Len(s)), ch)

\* sep.join(parts)
RECURSIVE Join(_, _)
Join(parts, sep) ==
    IF parts = <<>> THEN <<>>
    ELSE IF Len(parts) = 1 THEN parts[1]
    ELSE parts[1] \o sep \o Join(Tail(parts), sep)

Whitespace == {" ", "\t", "\n", "\r"}

\* str.rstrip() / str.lstrip() / str.strip()
RECURSIVE RStrip(_)
RStrip(s) ==
    IF s # <<>> /\ s[Len(s)] \in Whitespace
    THEN RStrip(Slice(s, 1, Len(s) - 1)) ELSE s

RECURSIVE LStrip(_)
LStrip(s) ==
    IF s # <<>> /\ s[1] \in Whitespace THEN LStrip(Tail(s)) ELSE s

Strip(s) == LStrip(RStrip(s))

Digits == <<"0","1","2","3","4","5","6","7","8","9">>
IsDigit(c) == \E i \in 1..10 : Digits[i] = c
DigitVal(c) == (CHOOSE i \in 1..10 : Digits[i] = c) - 1
IsNumber(s) == s # <<>> /\ \A i \in 1..Len(s) : IsDigit(s[i])

\* int(s) for a string of decimal digits
RECURSIVE IntOf(_)
IntOf(s) ==
    IF s = <<>> THEN 0
    ELSE 10 * IntOf(Slice(s, 1, Len(s) - 1)) + DigitVal(s[Len(s)])

\* str(n) for a natural number
RECURSIVE StrOfNat(_)
StrOfNat(n) ==
    IF n < 10 THEN <<Digits[n + 1]>>
    ELSE StrOfNat(n \div 10) \o <<Digits[(n % 10) + 1]>>

(***************************************************************************)
(* packaging.version: parse() and the ordering of Version.  The grammar is *)
(* that of PEP 440 without the epoch ("N!") and local ("+tag") segments:   *)
(*   v? release pre? post? dev?                                            *)
(* A string outside it raises InvalidVersion.                              *)
(***************************************************************************)
\* length of the leading run of digits of s
RECURSIVE DigitRun(_)
DigitRun(s) == IF s # <<>> /\ IsDigit(s[1]) THEN 1 + DigitRun(Tail(s)) ELSE 0

Drop(s, n) == Slice(s, n + 1, Len(s))

\* the optional separator [-_.]? of the grammar
OptSep(s) == IF s # <<>> /\ s[1] \in {"-", "_", "."} THEN Tail(s) ELSE s

\* length of the longest prefix of s of the form [0-9]+(\.[0-9]+)*, given
\* that its first n characters are of that form (0 when there is none)
RECURSIVE ReleaseEnd(_, _)
ReleaseEnd(s, n) ==
    IF n < Len(s) /\ s[n + 1] = "." /\ DigitRun(Drop(s, n + 1)) > 0
    THEN ReleaseEnd(s, n + 1 + DigitRun(Drop(s, n + 1)))
    ELSE n

ReleaseLen(s) == IF DigitRun(s) = 0 THEN 0 ELSE ReleaseEnd(s, DigitRun(s))

\* spellings of the pre-release tag in the order the grammar tries them,
\* with the rank of the normalised letter (a < b < rc)
PreSpellings ==
    << <<<<"a","l","p","h","a">>, 1>>, <<<<"a">>, 1>>,
       <<<<"b","e","t","a">>, 2>>,     <<<<"b">>, 2>>,
       <<<<"p","r","e","v","i","e","w">>, 3>>, <<<<"p","r","e">>, 3>>,
       <<<<"c">>, 3>>, <<<<"r","c">>, 3>> >>
PostSpellings == << <<"p","o","s","t">>, <<"r","e","v">>, <<"r">> >>
DevSpelling == <<"d","e","v">>

\* an optional number after a tag: [-_.]?[0-9]+ ; <<n, rest>>, n = 0 if absent
TagNumberAt(s, t, run) ==
    IF run > 0 THEN <<IntOf(Slice(t, 1, run)), Drop(t, run)>> ELSE <<0, s>>

TagNumber(s) == TagNumberAt(s, OptSep(s), DigitRun(OptSep(s)))

NoSeg == -1

\* pre? : [rank, n, rest]; rank = NoSeg when the segment is absent
PreFrom(sp, tn) == [rank |-> sp[2], n |-> tn[1], rest |-> tn[2]]

PreAt(s, t, is) ==
    IF is = {} THEN [rank |-> NoSeg, n |-> 0, rest |-> s]
    ELSE PreFrom(PreSpellings[Min(is)],
                 TagNumber(Drop(t, Len(PreSpellings[Min(is)][1]))))

ParsePre(s) ==
    PreAt(s, OptSep(s),
          {i \in 1..Len(PreSpellings) :
              StartsWith(OptSep(s), PreSpellings[i][1])})

\* post? : [n, rest]; n = NoSeg when the segment is absent
SegFrom(tn) == [n |-> tn[1], rest |-> tn[2]]

PostAt(s, t, is, run) ==
    IF s # <<>> /\ s[1] = "-" /\ run > 0
    THEN [n |-> IntOf(Slice(Tail(s), 1, run)), rest |-> Drop(Tail(s), run)]
    ELSE IF is = {} THEN [n |-> NoSeg, rest |-> s]
    ELSE SegFrom(TagNumber(Drop(t, Len(PostSpellings[Min(is)]))))

ParsePost(s) ==
    PostAt(s, OptSep(s),
           {i \in 1..Len(PostSpellings) :
               StartsWith(OptSep(s), PostSpellings[i])},
           IF s = <<>> THEN 0 ELSE DigitRun(Tail(s)))

\* dev? : [n, rest]; n = NoSeg when the segment is absent
ParseDev(s) ==
    IF StartsWith(OptSep(s), DevSpelling)
    THEN SegFrom(TagNumber(Drop(OptSep(s), Len(DevSpelling))))
    ELSE [n |-> NoSeg, rest |-> s]

\* Version(s): [valid, release, pre, pren, post, dev]
VersionFrom(rel, pre, post, dev) ==
    IF dev.rest # <<>>
    THEN [valid |-> FALSE]
    ELSE [valid   |-> TRUE,
          release |-> [i \in 1..Len(rel) |-> IntOf(rel[i])],
          pre     |-> pre.rank,
          pren    |-> pre.n,
          post    |-> post.n,
          dev     |-> dev.n]

VersionPost(rel, pre, post) == VersionFrom(rel, pre, post, ParseDev(post.rest))

VersionPre(rel, pre) == VersionPost(rel, pre, ParsePost(pre.rest))

VersionAt(s, rl) ==
    IF rl = 0 THEN [valid |-> FALSE]
    ELSE VersionPre(Split(Slice(s, 1, rl), "."), ParsePre(Drop(s, rl)))

VersionOf(s) == VersionAt(s, ReleaseLen(s))

StripV(s) == IF s # <<>> /\ s[1] = "v" THEN Tail(s) ELSE s

ParseVersion(str) == VersionOf(StripV(Lower(Strip(str))))

IsValidVersion(str) == ParseVersion(str).valid

\* str(Version): the normalised spelling
PreLetter == << <<"a">>, <<"b">>, <<"r","c">> >>
VersionStr(v) ==
    Join([i \in 1..Len(v.release) |-> StrOfNat(v.release[i])], <<".">>)
      \o (IF v.pre = NoSeg THEN <<>> ELSE PreLetter[v.pre] \o StrOfNat(v.pren))
      \o (IF v.post = NoSeg THEN <<>>
          ELSE <<".","p","o","s","t">> \o StrOfNat(v.post))
      \o (IF v.dev = NoSeg THEN <<>> ELSE <<".","d","e","v">> \o StrOfNat(v.dev))

\* Version._key: the release without trailing zeros, and the pre/post/dev
\* segments with the infinities that order an absent segment
RECURSIVE StripZeros(_)
StripZeros(r) ==
    IF r # <<>> /\ r[Len(r)] = 0 THEN StripZeros(Slice(r, 1, Len(r) - 1)) ELSE r

Infinity == 1000000

CmpKey(v) ==
    << StripZeros(v.release),
       IF v.pre = NoSeg /\ v.post = NoSeg /\ v.dev # NoSeg
         THEN <<-Infinity, 0>>
       ELSE IF v.pre = NoSeg THEN <<Infinity, 0>>
       ELSE <<v.pre, v.pren>>,
       <<v.post>>,
       IF v.dev = NoSeg THEN <<Infinity>> ELSE <<v.dev>> >>

\* Python's ordering of tuples of integers
RECURSIVE TupleLess(_, _)
TupleLess(a, b) ==
    IF b = <<>> THEN FALSE
    ELSE IF a = <<>> THEN TRUE
    ELSE IF a[1] # b[1] THEN a[1] < b[1]
    ELSE TupleLess(Tail(a), Tail(b))

\* k1 < k2 for two keys of CmpKey
KeyLess(k1, k2) ==
    LET ds == {i \in 1..4 : k1[i] # k2[i]}
    IN  ds # {} /\ TupleLess(k1[Min(ds)], k2[Min(ds)])

(***************************************************************************)
(* Python dicts: functions whose domain is the set of keys present.        *)
(***************************************************************************)
EmptyDict == <<>>

\* d.update(m): the keys of m win
Update(d, m) ==
    [k \in DOMAIN d \cup DOMAIN m |-> IF k \in DOMAIN m THEN m[k] ELSE d[k]]

\* d.get(k, default)
Get(d, k, default) == IF k \in DOMAIN d THEN d[k] ELSE default

\* the keys of the records
kFilename == <<"f","i","l","e","n","a","m","e">>
kPath     == <<"p","a","t","h">>
kSize     == <<"s","i","z","e">>
kUpload   == <<"u","p","l","o","a","d","_","t","i","m","e">>
kMd5      == <<"m","d","5","_","d","i","g","e","s","t">>
kSha256   == <<"s","h","a","2","5","6","_","d","i","g","e","s","t">>
kName     == <<"n","a","m","e">>
kVersion  == <<"v","e","r","s","i","o","n">>
kSummary  == <<"s","u","m","m","a","r","y">>
kDescription == <<"d","e","s","c","r","i","p","t","i","o","n">>
kAuthor   == <<"a","u","t","h","o","r">>
kHomePage == <<"h","o","m","e","_","p","a","g","e">>
kPyTag    == <<"p","y","t","h","o","n","_","t","a","g">>
kAbiTag   == <<"a","b","i","_","t","a","g">>
kPlatTag  == <<"p","l","a","t","f","o","r","m","_","t","a","g">>
kBuildTag == <<"b","u","i","l","d","_","t","a","g">>

(***************************************************************************)
(* _parse_metadata (the PKG-INFO / METADATA text format).                  *)
(***************************************************************************)
DescriptionKeys ==
    { <<"D","e","s","c","r","i","p","t","i","o","n">>,
      <<"D","e","s","c","r","i","p","t","i","o","n","-",
        "C","o","n","t","e","n","t","-","T","y","p","e">> }

Indent == <<" "," "," "," "," "," "," "," ">>

\* key.lower().replace('-', '_')
NormKey(key) == Replace(Lower(key), <<"-">>, <<"_">>)

\* line.split(':', 1) of a line that holds a colon: <<key, value>>
SplitColon(line) ==
    LET i == Min(Occurrences(line, <<":">>))
    IN  <<Slice(line, 1, i - 1), Slice(line, i + 1, Len(line))>>

\* a loop that takes no line after the key line
NoContinuation(lines, i) == i


\* the index after the continuation lines that start at index i
RECURSIVE ContinuationEnd(_, _)
ContinuationEnd(lines, i) ==
    IF i <= Len(lines)
       /\ (StartsWith(lines[i], Indent) \/ Strip(lines[i]) = <<>>)
    THEN ContinuationEnd(lines, i + 1)
    ELSE i

\* the while loop of _parse_metadata from index i (1-based) on
RECURSIVE ParseLines(_, _, _)
ParseLines(lines, i, metadata) ==
    IF i > Len(lines) THEN metadata
    ELSE LET line == Strip(lines[i])
         IN  IF line = <<>> \/ ~Contains(line, <<":">>)
             THEN ParseLines(lines, i + 1, metadata)
             ELSE LET kv    == SplitColon(line)
                      key   == Strip(kv[1])
                      value == Strip(kv[2])
                  IN  IF key \in DescriptionKeys
                      THEN LET j     == ContinuationEnd(lines, i + 1)
                               first == IF value # <<>> THEN <<value>> ELSE <<>>
                               more  == [n \in 1..(j - i - 1) |->
                                            RStrip(lines[i + n])]
                               text  == Strip(Join(first \o more, <<"\n">>))
                           IN  ParseLines(lines, j,
                                  Update(metadata, (NormKey(key) :> text)))
                      ELSE ParseLines(lines, i + 1,
                                  Update(metadata, (NormKey(key) :> value)))

\* _parse_metadata(content)
ParseMetadata(content) == ParseLines(Split(content, "\n"), 1, EmptyDict)

(***************************************************************************)
(* packaging.utils: canonicalize_name, parse_sdist_filename,               *)
(* parse_wheel_filename.  A result is [ok |-> FALSE] when the function     *)
(* raises and [ok |-> TRUE, value |-> the returned tuple] otherwise.       *)
(***************************************************************************)
\* re.sub(r"[-_.]+", "-", name).lower()
RECURSIVE CollapseSeps(_)
CollapseSeps(s) ==
    IF s = <<>> THEN <<>>
    ELSE IF s[1] \in {"-", "_", "."}
    THEN IF Len(s) > 1 /\ s[2] \in {"-", "_", "."}
         THEN CollapseSeps(Tail(s))
         ELSE <<"-">> \o CollapseSeps(Tail(s))
    ELSE <<s[1]>> \o CollapseSeps(Tail(s))

CanonicalizeName(name) == Lower(CollapseSeps(name))

TarGz == <<".","t","a","r",".","g","z">>
Whl   == <<".","w","h","l">>
Zip   == <<".","z","i","p">>

\* parse_sdist_filename(filename) -> (name, version)
SdistResult(name, version) ==
    IF ~version.valid THEN [ok |-> FALSE]
    ELSE [ok |-> TRUE, value |-> <<CanonicalizeName(name), version>>]

SdistStem(stem, ds) ==
    IF ds = {} THEN [ok |-> FALSE]
    ELSE SdistResult(Slice(stem, 1, Max(ds) - 1),
                     ParseVersion(Slice(stem, Max(ds) + 1, Len(stem))))

SdistOf(stem) == SdistStem(stem, Occurrences(stem, <<"-">>))

ParseSdistFilename(filename) ==
    IF EndsWith(filename, TarGz)
    THEN SdistOf(Slice(filename, 1, Len(filename) - Len(TarGz)))
    ELSE IF EndsWith(filename, Zip)
    THEN SdistOf(Slice(filename, 1, Len(filename) - Len(Zip)))
    ELSE [ok |-> FALSE]

\* characters of \w besides the letters and digits, and the dot
IsNameChar(c) ==
    \/ IsDigit(c) \/ c \in {"_", "."}
    \/ \E i \in 1..26 : Upper[i] = c \/ LowerOf[i] = c

\* str.split('-', maxsplit)
RECURSIVE SplitMax(_, _, _)
SplitMax(s, ch, maxsplit) ==
    IF maxsplit = 0 \/ Occurrences(s, <<ch>>) = {} THEN <<s>>
    ELSE LET i == Min(Occurrences(s, <<ch>>))
         IN  <<Slice(s, 1, i - 1)>>
               \o SplitMax(Slice(s, i + 1, Len(s)), ch, maxsplit - 1)

\* parse_wheel_filename(filename) -> (name, version, build, tags)
WheelResult(name, version, build, tags) ==
    IF ~version.valid THEN [ok |-> FALSE]
    ELSE [ok |-> TRUE,
          value |-> <<CanonicalizeName(name), version, build, tags>>]

WheelParts(parts, dashes) ==
    IF \/ Contains(parts[1], <<"_","_">>)
       \/ \E i \in 1..Len(parts[1]) : ~IsNameChar(parts[1][i])
       \/ (dashes = 5 /\ DigitRun(parts[3]) = 0)
    THEN [ok |-> FALSE]
    ELSE WheelResult(parts[1], ParseVersion(parts[2]),
                     IF dashes = 5 THEN parts[3] ELSE <<>>,
                     parts[Len(parts)])

WheelStem(stem, dashes) ==
    IF dashes \notin {4, 5} THEN [ok |-> FALSE]
    ELSE WheelParts(SplitMax(stem, "-", dashes - 2), dashes)

WheelOf(stem) == WheelStem(stem, Cardinality(Occurrences(stem, <<"-">>)))

ParseWheelFilename(filename) ==
    IF ~EndsWith(filename, Whl) THEN [ok |-> FALSE]
    ELSE WheelOf(Slice(filename, 1, Len(filename) - Len(Whl)))

(***************************************************************************)
(* The storage tree.  A file is a path under the data directory with a     *)
(* content and a modification time.  The contents are a fixed set of       *)
(* archives (and non-archives); the paths are a fixed set of names.        *)
(***************************************************************************)
\* str(Path('./packages'))
DataDir == <<"p","a","c","k","a","g","e","s">>

MetaWidget == <<"N","a","m","e",":"," ","w","i","d","g","e","t","\n","V","e","r","s","i","o","n",":"," ","1",".","2",".","0","\n","S","u","m","m","a","r","y",":"," ","t","e","s","t">>
MetaLatest == <<"N","a","m","e",":"," ","W","i","d","g","e","t","\n","V","e","r","s","i","o","n",":"," ","l","a","t","e","s","t">>
MetaDescribed == <<"N","a","m","e",":"," ","w","i","d","g","e","t","\n","V","e","r","s","i","o","n",":"," ","0",".","9","\n","D","e","s","c","r","i","p","t","i","o","n",":"," ","T","o","o","l","s"," ","f","o","r"," ","T","E","S","T","I","N","G","\n"," "," "," "," "," "," "," "," ","m","o","r","e">>
MetaGadget == <<"N","a","m","e",":"," ","G","a","d","g","e","t","\n","V","e","r","s","i","o","n",":"," ","2",".","0","\n","S","u","m","m","a","r","y",":"," ","a"," ","w","i","d","g","e","t"," ","t","e","s","t","e","r">>
MetaTools == <<"N","a","m","e",":"," ","W","i","d","g","e","t","_","T","o","o","l","s","\n","V","e","r","s","i","o","n",":"," ","1",".","2",".","0",".","p","o","s","t","1","\n","S","u","m","m","a","r","y",":"," ","t","o","o","l","s">>
\* an entry with a byte that is not UTF-8 in its Author line, as
\* decode(errors='replace') would read it ("?" for U+FFFD)
MetaLatin1 == <<"N","a","m","e",":"," ","w","i","d","g","e","t","\n","V","e","r","s","i","o","n",":"," ","1",".","2",".","0","\n","S","u","m","m","a","r","y",":"," ","t","e","s","t","\n","A","u","t","h","o","r",":"," ","J","o","s","?">>
MetaNoVersion == <<"N","a","m","e",":"," ","w","i","d","g","e","t","\n","S","u","m","m","a","r","y",":"," ","x">>

\* format: the container the bytes are ("zip", "tgz", "none");
\* member: the archive holds a .dist-info/METADATA or PKG-INFO entry;
\* text/utf8: that entry's bytes and whether they are valid UTF-8;
\* readable: open() on the file succeeds; size: st_size.
Contents ==
    [ zero     |-> [format |-> "none", member |-> FALSE, text |-> <<>>,
                    utf8 |-> TRUE, readable |-> TRUE, size |-> 0],
      zipmeta  |-> [format |-> "zip", member |-> TRUE, text |-> MetaWidget,
                    utf8 |-> TRUE, readable |-> TRUE, size |-> 3],
      ziplatest |-> [format |-> "zip", member |-> TRUE, text |-> MetaLatest,
                    utf8 |-> TRUE, readable |-> TRUE, size |-> 2],
      zipnover |-> [format |-> "zip", member |-> TRUE, text |-> MetaNoVersion,
                    utf8 |-> TRUE, readable |-> TRUE, size |-> 2],
      zipplain |-> [format |-> "zip", member |-> FALSE, text |-> <<>>,
                    utf8 |-> TRUE, readable |-> TRUE, size |-> 1],
      tgzplain |-> [format |-> "tgz", member |-> FALSE, text |-> <<>>,
                    utf8 |-> TRUE, readable |-> TRUE, size |-> 1],
      locked   |-> [format |-> "tgz", member |-> FALSE, text |-> <<>>,
                    utf8 |-> TRUE, readable |-> FALSE, size |-> 1],
      zipdesc  |-> [format |-> "zip", member |-> TRUE, text |-> MetaDescribed,
                    utf8 |-> TRUE, readable |-> TRUE, size |-> 4],
      zipgadget |-> [format |-> "zip", member |-> TRUE, text |-> MetaGadget,
                    utf8 |-> TRUE, readable |-> TRUE, size |-> 4],
      halfread |-> [format |-> "tgz", member |-> FALSE, text |-> <<>>,
                    utf8 |-> TRUE, readable |-> TRUE, size |-> 1],
      tgzmeta  |-> [format |-> "tgz", member |-> TRUE, text |-> MetaWidget,
                    utf8 |-> TRUE, readable |-> TRUE, size |-> 3],
      tgztools |-> [format |-> "tgz", member |-> TRUE, text |-> MetaTools,
                    utf8 |-> TRUE, readable |-> TRUE, size |-> 3],
      tgznover |-> [format |-> "tgz", member |-> TRUE, text |-> MetaNoVersion,
                    utf8 |-> TRUE, readable |-> TRUE, size |-> 2],
      tgzlatin1 |-> [format |-> "tgz", member |-> TRUE, text |-> MetaLatin1,
                    utf8 |-> FALSE, readable |-> TRUE, size |-> 3],
      ziplatin1 |-> [format |-> "zip", member |-> TRUE, text |-> MetaLatin1,
                    utf8 |-> FALSE, readable |-> TRUE, size |-> 3] ]

ContentIds == DOMAIN Contents

pBroken   == <<"b","r","o","k","e","n",".","w","h","l">>
pWheel    == <<"w","i","d","g","e","t","-","1",".","2",".","0","-","p","y","3","-","n","o","n","e","-","a","n","y",".","w","h","l">>
pWheelBad == <<"w","-","x",".","w","h","l">>
pSdist12  == <<"w","i","d","g","e","t","-","1",".","2",".","0",".","t","a","r",".","g","z">>
pSdist110 == <<"w","i","d","g","e","t","-","1",".","1","0",".","0",".","t","a","r",".","g","z">>
pSdistBad == <<"w","i","d","g","e","t","-","l","a","t","e","s","t",".","t","a","r",".","g","z">>
pSdist000 == <<"W","i","d","g","e","t","-","0",".","0",".","0",".","t","a","r",".","g","z">>
pNotes    == <<"n","o","t","e","s",".","t","x","t">>

\* a file of a subdirectory of the data directory
pOld      == <<"o","l","d","/","w","i","d","g","e","t","-","1",".","2",".","0",".","t","a","r",".","g","z">>

Paths ==
    {pBroken, pWheel, pWheelBad, pSdist12, pSdist110, pSdistBad, pSdist000,
     pNotes, pOld}

\* the contents a path is written with
ContentsFor(p) ==
    IF p = pBroken THEN {"zero"}
    ELSE IF p = pWheel THEN {"zipmeta", "zipplain"}
    ELSE IF p = pWheelBad THEN {"ziplatest", "zipnover"}
    ELSE IF p = pSdist12 THEN {"tgzplain", "locked"}
    ELSE IF p = pNotes THEN {"zero"}
    ELSE {"tgzplain"}

NoFile == [exists |-> FALSE]
File(c, m) == [exists |-> TRUE, content |-> c, mtime |-> m]

\* Path.name
Basename(p) ==
    LET is == Occurrences(p, <<"/">>)
    IN  IF is = {} THEN p ELSE Slice(p, Max(is) + 1, Len(p))

\* file_path.suffix == '.whl' or file_path.name.endswith('.tar.gz')
IsPackageFile(p) ==
    \/ (EndsWith(Basename(p), Whl) /\ Len(Basename(p)) > Len(Whl))
    \/ EndsWith(Basename(p), TarGz)

\* a key that leaves the modification time out
CacheKeyWithoutMtime(p, mtime) == DataDir \o <<"/">> \o p

\* f"{file_path}:{file_path.stat().st_mtime}"
CacheKey(p, mtime) ==
    DataDir \o <<"/">> \o p \o <<":">> \o StrOfNat(mtime) \o <<".","0">>

(***************************************************************************)
(* _calculate_hash, _extract_wheel_metadata, _extract_sdist_metadata.      *)
(***************************************************************************)
\* the contents of a file that can be opened once and not again (its
\* permissions change, or the device fails, while get_package_info runs)
ReadableOnce == {"halfread"}

\* open(file_path, 'rb') succeeds on the n-th read of get_package_info: the
\* md5 digest, the sha256 digest, the archive
Opens(c, n) == Contents[c].readable /\ (c \in ReadableOnce => n = 1)

\* hexdigest of the bytes, "" when reading the file fails
CalculateHash(c, algorithm) ==
    IF Opens(c, IF algorithm = "md5" THEN 1 ELSE 2)
    THEN <<algorithm, c>> ELSE <<>>

\* bytes.decode('utf-8'): [ok, text]; raises on invalid bytes
Decode(c) ==
    IF Contents[c].utf8 THEN [ok |-> TRUE, text |-> Contents[c].text]
    ELSE [ok |-> FALSE]

\* the metadata dict of a wheel; {} when the archive cannot be opened, has
\* no METADATA entry, or the entry cannot be decoded
ExtractWheelMetadata(c) ==
    IF /\ Opens(c, 3) /\ Contents[c].format = "zip"
       /\ Contents[c].member /\ Decode(c).ok
    THEN ParseMetadata(Decode(c).text)
    ELSE EmptyDict

\* the metadata dict of an sdist, likewise
ExtractSdistMetadata(c) ==
    IF /\ Opens(c, 3) /\ Contents[c].format = "tgz"
       /\ Contents[c].member /\ Decode(c).ok
    THEN ParseMetadata(Decode(c).text)
    ELSE EmptyDict

(***************************************************************************)
(* get_package_info.                                                       *)
(***************************************************************************)
\* the dict built from the file's stat and digests
BaseInfo(p, f) ==
    (kFilename :> Basename(p)) @@ (kPath :> p)
      @@ (kSize :> Contents[f.content].size) @@ (kUpload :> f.mtime)
      @@ (kMd5 :> CalculateHash(f.content, "md5"))
      @@ (kSha256 :> CalculateHash(f.content, "sha256"))

\* number of targets of the tuple assignment
\*   name, version, build_tag, python_tag, abi_tag, platform_tag = ...
WheelUnpackTargets == 6

\* the inner try of the wheel branch: the update of the metadata, {} when
\* parse_wheel_filename or the unpacking of its result raises
WheelUnpack(r) ==
    IF r.ok /\ Len(r.value) = WheelUnpackTargets
    THEN (kName :> r.value[1]) @@ (kVersion :> VersionStr(r.value[2]))
           @@ (kPyTag :> r.value[4]) @@ (kAbiTag :> r.value[5])
           @@ (kPlatTag :> r.value[6]) @@ (kBuildTag :> r.value[3])
    ELSE EmptyDict

WheelFilenameUpdate(filename) == WheelUnpack(ParseWheelFilename(filename))

\* the inner try of the sdist branch, with its fallback on the raw split
SdistFallback(parts) ==
    IF Len(parts) >= 2
    THEN (kName :> Join(Slice(parts, 1, Len(parts) - 1), <<"-">>))
           @@ (kVersion :> parts[Len(parts)])
    ELSE EmptyDict

SdistUnpack(r, filename) ==
    IF r.ok
    THEN (kName :> r.value[1]) @@ (kVersion :> VersionStr(r.value[2]))
    ELSE SdistFallback(Split(Replace(filename, TarGz, <<>>), "-"))

SdistFilenameUpdate(filename) ==
    SdistUnpack(ParseSdistFilename(filename), filename)

\* the metadata the outer try adds to the record (nothing when it raises:
\* a file that is neither a wheel nor an sdist leaves `metadata` unbound)
ExtractMetadata(p, c) ==
    IF EndsWith(Basename(p), Whl)
    THEN Update(ExtractWheelMetadata(c), WheelFilenameUpdate(Basename(p)))
    ELSE IF EndsWith(Basename(p), TarGz)
    THEN Update(ExtractSdistMetadata(c), SdistFilenameUpdate(Basename(p)))
    ELSE EmptyDict

\* ExtractMetadata on every path and content of the model
MetadataTable ==
    [p \in Paths |-> [c \in ContentIds |-> ExtractMetadata(p, c)]]

\* the record of an uncached file
ComputeInfo(p, f) == Update(BaseInfo(p, f), MetadataTable[p][f.content])

\* a lookup that never finds the key
CacheNeverHit(cache, p, f) == FALSE

\* cache_key in self.metadata_cache
CacheHit(cache, p, f) == CacheKey(p, f.mtime) \in DOMAIN cache

\* the record without the metadata merged in by line 114
BaseOnly(info) ==
    [k \in DOMAIN info \cap {kFilename, kPath, kSize, kUpload, kMd5, kSha256}
        |-> info[k]]

\* a store that caches the record before the metadata is merged into it
InfoStoredBeforeMetadata(cache, key, info) ==
    [info |-> info, cache |-> Update(cache, (key :> BaseOnly(info))),
     inspected |-> TRUE]

\* get_package_info(file_path) on an existing file:
\* [info: the record returned, cache: the cache afterwards,
\*  inspected: the archive was opened and hashed]
InfoStored(cache, key, info) ==
    [info |-> info, cache |-> Update(cache, (key :> info)),
     inspected |-> TRUE]

InfoAt(cache, p, f, key) ==
    IF CacheHit(cache, p, f)
    THEN [info |-> cache[key], cache |-> cache, inspected |-> FALSE]
    ELSE InfoStored(cache, key, ComputeInfo(p, f))

GetPackageInfo(cache, p, f) == InfoAt(cache, p, f, CacheKey(p, f.mtime))

(***************************************************************************)
(* _version_key and the per-group sort of get_all_packages.                *)
(***************************************************************************)
ZeroVersion == <<"0",".","0",".","0">>

\* _version_key(version_string): [raised, key]; InvalidVersion is caught and
\* replaced by the key of "0.0.0"
VersionKeyOf(v) ==
    IF v.valid
    THEN [raised |-> FALSE, key |-> CmpKey(v)]
    ELSE [raised |-> FALSE, key |-> CmpKey(ParseVersion(ZeroVersion))]

VersionKey(vs) == VersionKeyOf(ParseVersion(vs))

\* the key of the lambda: _version_key(x.get('version', '0.0.0'))
SortKey(info) == VersionKey(Get(info, kVersion, ZeroVersion))

\* the sort computes the key of every element once: <<key, element>>
Decorate(versions) ==
    [i \in 1..Len(versions) |-> <<SortKey(versions[i]).key, versions[i]>>]

\* x goes after every element whose key is not smaller than its own
RECURSIVE InsertDesc(_, _)
InsertDesc(x, sorted) ==
    IF sorted = <<>> THEN <<x>>
    ELSE IF KeyLess(sorted[1][1], x[1])
    THEN <<x>> \o sorted
    ELSE <<sorted[1]>> \o InsertDesc(x, Tail(sorted))

RECURSIVE InsertAsc(_, _)
InsertAsc(x, sorted) ==
    IF sorted = <<>> THEN <<x>>
    ELSE IF KeyLess(x[1], sorted[1][1])
    THEN <<x>> \o sorted
    ELSE <<sorted[1]>> \o InsertAsc(x, Tail(sorted))

\* stable sort of decorated elements, descending / ascending
RECURSIVE SortDesc(_)
SortDesc(dec) ==
    IF dec = <<>> THEN <<>>
    ELSE InsertDesc(dec[Len(dec)], SortDesc(Slice(dec, 1, Len(dec) - 1)))

RECURSIVE SortAsc(_)
SortAsc(dec) ==
    IF dec = <<>> THEN <<>>
    ELSE InsertAsc(dec[Len(dec)], SortAsc(Slice(dec, 1, Len(dec) - 1)))

Undecorate(dec) == [i \in 1..Len(dec) |-> dec[i][2]]

SortVersionsAscending(versions) == Undecorate(SortAsc(Decorate(versions)))

\* list.sort(key=..., reverse=True): stable, descending
SortVersions(versions) == Undecorate(SortDesc(Decorate(versions)))

(***************************************************************************)
(* get_all_packages.                                                       *)
(***************************************************************************)
\* the exception classes of the model; all derive from Exception
Exceptions == {"KeyError", "InvalidVersion", "FileExistsError",
               "FileNotFoundError"}

\* a handler that catches only the errors of the file system
ScanCatchesOSError(exc) == exc \in {"FileExistsError", "FileNotFoundError"}

\* `except Exception` of the scan loop (line 43)
ScanCatches(exc) == exc \in Exceptions

\* packages[name].append(package_info), creating the list when needed
AppendTo(packages, name, info) ==
    Update(packages, (name :> Append(Get(packages, name, <<>>), info)))

\* one iteration of the loop over rglob('*') on the existing file p.
\* acc = [packages, cache, inspected, errors, raised];
\* g = get_package_info(file_path)
AddInfo(acc, p, g, seen, exc) ==
    IF exc = "none"
    THEN [acc EXCEPT
            !.packages = AppendTo(@, Lower(g.info[kName]), g.info),
            !.cache = g.cache,
            !.inspected = @ \cup seen]
    ELSE IF ScanCatches(exc)
    THEN [acc EXCEPT !.cache = g.cache,
                     !.inspected = @ \cup seen,
                     !.errors = @ \cup {p}]
    ELSE [acc EXCEPT !.cache = g.cache,
                     !.inspected = @ \cup seen,
                     !.raised = exc]

Scanned(acc, p, g) ==
    AddInfo(acc, p, g, IF g.inspected THEN {p} ELSE {},
            IF kName \in DOMAIN g.info THEN "none" ELSE "KeyError")

ScanFile(acc, p, f) ==
    IF ~IsPackageFile(p) THEN acc
    ELSE Scanned(acc, p, GetPackageInfo(acc.cache, p, f))

\* the loop over the enumeration `order` of the tree, from index i on; an
\* exception that is not caught ends it
RECURSIVE Scan(_, _, _, _)
Scan(order, i, tree, acc) ==
    IF i > Len(order) \/ acc.raised # "none" THEN acc
    ELSE Scan(order, i + 1, tree, ScanFile(acc, order[i], tree[order[i]]))

\* the sort raises when a key function raises
SortRaises(packages) ==
    \E name \in DOMAIN packages : \E i \in 1..Len(packages[name]) :
        SortKey(packages[name][i]).raised

\* get_all_packages() on the tree, enumerated in the given order:
\* [packages, cache, inspected, errors, raised]
SortGroups(acc) ==
    IF acc.raised # "none" THEN acc
    ELSE IF SortRaises(acc.packages)
    THEN [acc EXCEPT !.raised = "InvalidVersion"]
    ELSE [acc EXCEPT !.packages =
             [name \in DOMAIN acc.packages |->
                 SortVersions(acc.packages[name])]]

GetAllPackages(cache, tree, order) ==
    SortGroups(Scan(order, 1, tree,
                    [packages |-> EmptyDict, cache |-> cache,
                     inspected |-> {}, errors |-> {}, raised |-> "none"]))

(***************************************************************************)
(* The state machine: one PackageManager over one storage tree.            *)
(***************************************************************************)
VARIABLES
    tree,            \* the storage tree: path -> NoFile or File(content, mtime)
    metadata_cache,  \* self.metadata_cache: cache key -> record
    clock,           \* modification times handed out so far
    ret,             \* the last operation and what it returned
    threads,         \* the request threads inside get_all_packages
    user_manager,    \* UserManager: [users, tokens]
    auth_enabled,    \* config.auth_enabled
    storage_root,    \* what listing the data directory gives
    user_file,       \* users.json, shared by every UserManager
    cli_manager      \* the UserManager of a CLI invocation, None without one

vars == <<tree, metadata_cache, clock, ret, threads, user_manager,
          auth_enabled, storage_root, user_file, cli_manager>>

\* the request threads of the server (app.run serves each request in its
\* own thread; all of them share the module's package_manager)
Threads == {1, 2}

NoLocals == [packages |-> EmptyDict, inspected |-> {}, errors |-> {},
             raised |-> "none"]

\* a thread that is not inside get_all_packages
Idle == [pc |-> "idle", order |-> <<>>, i |-> 0, acc |-> NoLocals,
         result |-> [packages |-> EmptyDict, raised |-> "none"]]

\* last_login, expires_at: None
None == <<>>

\* UserManager() without a users.json: the default admin, no tokens
DefaultUserManager ==
    [users |-> ("admin" :> [password |-> "admin", active |-> TRUE,
                            last_login |-> None]),
     tokens |-> <<>>]

\* users.json as save_users writes it: the users and tokens of the manager
StoredUsers(um) ==
    [exists |-> TRUE, loads |-> TRUE,
     data |-> [users |-> um.users, tokens |-> um.tokens]]

\* users.json after a method that returned r: rewritten from the memory of
\* the manager when the method called save_users()
Saved(file, r) == IF r.saved THEN StoredUsers(r.um) ELSE file

Existing(t) == {p \in Paths : t[p].exists}

\* the enumerations rglob('*') can produce for the files of a tree
Orders(t) ==
    {o \in [1..Cardinality(Existing(t)) -> Existing(t)] :
        \A i, j \in DOMAIN o : i # j => o[i] # o[j]}

Init ==
    /\ tree = [p \in Paths |-> NoFile]
    /\ metadata_cache = EmptyDict
    /\ clock = 0
    /\ ret = [op |-> "init"]
    /\ threads = [t \in Threads |-> Idle]
    /\ user_manager = DefaultUserManager
    /\ auth_enabled = FALSE
    /\ storage_root = "listable"
    /\ user_file = StoredUsers(user_manager)
    /\ cli_manager = None

\* packages = package_manager.get_all_packages()
Built(order, r) ==
    /\ metadata_cache' = r.cache
    /\ ret' = [op |-> "get_all_packages", order |-> order,
               packages |-> r.packages, inspected |-> r.inspected,
               errors |-> r.errors, raised |-> r.raised]
    /\ UNCHANGED <<tree, clock, threads,
                 user_manager, auth_enabled,
                 storage_root, user_file, cli_manager>>

\* what self.data_dir.rglob('*') gives for the states of the data directory:
\* "listable", every file in some order; "denied" (scandir raises
\* PermissionError, which pathlib's selectors swallow) and "missing" (is_dir
\* is false), nothing; "broken" (scandir raises another OSError: EIO,
\* EMFILE), the error
RootStates == {"listable", "denied", "missing", "broken"}

Enumerations(root, t) == IF root = "listable" THEN Orders(t) ELSE {<<>>}

\* the build over an enumeration: the error of a broken root leaves line 29
Listed(root, r) ==
    IF root = "broken" THEN [r EXCEPT !.raised = "OSError"] ELSE r

Build ==
    \E order \in Enumerations(storage_root, tree) :
        Built(order, Listed(storage_root,
                            GetAllPackages(metadata_cache, tree, order)))

\* store_package(file_data, filename, overwrite)
StorePackage(p, c, overwrite) ==
    /\ clock < MaxClock
    /\ IF tree[p].exists /\ ~overwrite
       THEN /\ ret' = [op |-> "store_package", path |-> p,
                       raised |-> "FileExistsError"]
            /\ UNCHANGED <<tree, clock>>
       ELSE /\ tree' = [tree EXCEPT ![p] = File(c, clock + 1)]
            /\ clock' = clock + 1
            /\ ret' = [op |-> "store_package", path |-> p, raised |-> "none"]
    /\ UNCHANGED <<metadata_cache, threads,
                 user_manager, auth_enabled,
                 storage_root, user_file, cli_manager>>

\* a cleanup that compares the key with the path instead of searching it
KeysEqualToPath(cache, filename) ==
    {key \in DOMAIN cache : key = DataDir \o <<"/">> \o filename}

\* the keys delete_package removes: [key for key in cache if filename in key]
KeysToRemove(cache, filename) ==
    {key \in DOMAIN cache : Contains(key, filename)}

\* delete_package(filename)
DeletePackage(p) ==
    IF ~tree[p].exists
    THEN /\ ret' = [op |-> "delete_package", path |-> p,
                    raised |-> "FileNotFoundError"]
         /\ UNCHANGED <<tree, metadata_cache, clock, threads,
                 user_manager, auth_enabled,
                 storage_root, user_file, cli_manager>>
    ELSE /\ tree' = [tree EXCEPT ![p] = NoFile]
         /\ metadata_cache' =
               [key \in DOMAIN metadata_cache
                          \ KeysToRemove(metadata_cache, p) |->
                   metadata_cache[key]]
         /\ ret' = [op |-> "delete_package", path |-> p, raised |-> "none",
                    removed |-> KeysToRemove(metadata_cache, p)]
         /\ UNCHANGED <<clock, threads,
                 user_manager, auth_enabled,
                 storage_root, user_file, cli_manager>>

\* a write to the tree that does not go through the PackageManager (another
\* process writing the data directory); the file takes a new modification
\* time
ExternalWrite(p, c) ==
    /\ clock < MaxClock
    /\ tree' = [tree EXCEPT ![p] = File(c, clock + 1)]
    /\ clock' = clock + 1
    /\ ret' = [op |-> "external"]
    /\ UNCHANGED <<metadata_cache, threads,
                 user_manager, auth_enabled,
                 storage_root, user_file, cli_manager>>

\* a removal that does not go through the PackageManager
ExternalRemove(p) ==
    /\ tree[p].exists
    /\ tree' = [tree EXCEPT ![p] = NoFile]
    /\ ret' = [op |-> "external"]
    /\ UNCHANGED <<metadata_cache, clock, threads,
                 user_manager, auth_enabled,
                 storage_root, user_file, cli_manager>>

\* the files the mutating operations are called with
StoredPaths == {pBroken, pWheel, pSdist12}

Next ==
    \/ Build
    \/ \E p \in StoredPaths : \E c \in ContentsFor(p) : \E ow \in BOOLEAN :
          StorePackage(p, c, ow)
    \/ \E p \in StoredPaths : DeletePackage(p)
    \/ \E p \in StoredPaths : \E c \in ContentsFor(p) : ExternalWrite(p, c)
    \/ \E p \in StoredPaths : ExternalRemove(p)

Spec == Init /\ [][Next]_vars

(***************************************************************************)
(* The catalog of an arbitrary storage tree: a PackageManager constructed  *)
(* over a data directory that already holds up to MaxFiles files, all of   *)
(* modification time 1, queried with get_all_packages.                     *)
(***************************************************************************)
InitialTrees ==
    UNION { { [p \in Paths |-> IF p \in S THEN File(cs[p], 1)
                                         ELSE NoFile] :
                cs \in {f \in [S -> ContentIds] :
                          \A p \in S : f[p] \in ContentsFor(p)} } :
            S \in {T \in SUBSET Paths : Cardinality(T) <= MaxFiles} }

InitCatalog ==
    /\ tree \in InitialTrees
    /\ metadata_cache = EmptyDict
    /\ clock = 1
    /\ ret = [op |-> "init"]
    /\ threads = [t \in Threads |-> Idle]
    /\ user_manager = DefaultUserManager
    /\ auth_enabled = FALSE
    /\ storage_root = "listable"
    /\ user_file = StoredUsers(user_manager)
    /\ cli_manager = None

NextCatalog == Build

SpecCatalog == InitCatalog /\ [][NextCatalog]_vars

(***************************************************************************)
(* Concurrent requests: the threads of the server call get_all_packages    *)
(* of the one package_manager over an unchanged tree.  A step of a thread  *)
(* is one operation on self.metadata_cache (a dict operation is atomic     *)
(* under the interpreter lock) together with the thread-local code up to   *)
(* the next one.                                                           *)
(***************************************************************************)
\* the accumulator of the loop with the shared cache as the thread sees it
ThreadAcc(l, cache) ==
    [packages |-> l.packages, cache |-> cache, inspected |-> l.inspected,
     errors |-> l.errors, raised |-> l.raised]

\* the local variables of the loop
LocalsOf(acc) ==
    [packages |-> acc.packages, inspected |-> acc.inspected,
     errors |-> acc.errors, raised |-> acc.raised]

\* the thread goes on with the next file of its enumeration
Advanced(t, th, acc) ==
    threads' = [threads EXCEPT
                   ![t] = [th EXCEPT !.pc = "lookup", !.i = @ + 1,
                                     !.acc = LocalsOf(acc)]]

\* a request enters get_all_packages: packages = {} and the enumeration
\* (the threads are numbered in the order they enter)
Call(t) ==
    /\ threads[t].pc = "idle"
    /\ \A u \in Threads : u < t => threads[u].pc # "idle"
    /\ \E order \in Orders(tree) :
          threads' = [threads EXCEPT
                         ![t] = [Idle EXCEPT !.pc = "lookup", !.order = order,
                                             !.i = 1]]
    /\ UNCHANGED <<tree, metadata_cache, clock, ret,
                 user_manager, auth_enabled,
                 storage_root, user_file, cli_manager>>

\* the next file of the loop: the suffix filter, then get_package_info up
\* to `cache_key in self.metadata_cache` (line 61)
LookedUp(t, th, p) ==
    IF ~IsPackageFile(p)
    THEN threads' = [threads EXCEPT ![t] = [th EXCEPT !.i = @ + 1]]
    ELSE IF CacheHit(metadata_cache, p, tree[p])
    THEN threads' = [threads EXCEPT ![t] = [th EXCEPT !.pc = "read"]]
    ELSE threads' = [threads EXCEPT ![t] = [th EXCEPT !.pc = "insert"]]

Lookup(t) ==
    /\ threads[t].pc = "lookup"
    /\ threads[t].i <= Len(threads[t].order)
    /\ threads[t].acc.raised = "none"
    /\ LookedUp(t, threads[t], threads[t].order[threads[t].i])
    /\ UNCHANGED <<tree, metadata_cache, clock, ret,
                 user_manager, auth_enabled,
                 storage_root, user_file, cli_manager>>

\* return self.metadata_cache[cache_key] (line 62), then the loop body
HitRead(t, th, p, key) ==
    IF key \in DOMAIN metadata_cache
    THEN Advanced(t, th,
            Scanned(ThreadAcc(th.acc, metadata_cache), p,
                    [info |-> metadata_cache[key], cache |-> metadata_cache,
                     inspected |-> FALSE]))
    ELSE Advanced(t, th,
            AddInfo(ThreadAcc(th.acc, metadata_cache), p,
                    [cache |-> metadata_cache], {}, "KeyError"))

Read(t) ==
    /\ threads[t].pc = "read"
    /\ HitRead(t, threads[t], threads[t].order[threads[t].i],
               CacheKey(threads[t].order[threads[t].i],
                        tree[threads[t].order[threads[t].i]].mtime))
    /\ UNCHANGED <<tree, metadata_cache, clock, ret,
                 user_manager, auth_enabled,
                 storage_root, user_file, cli_manager>>

\* lines 64-116 on the thread's own record, then
\* self.metadata_cache[cache_key] = package_info (line 119) and the loop body
Inserted(t, th, p, g) ==
    /\ metadata_cache' = g.cache
    /\ Advanced(t, th, Scanned(ThreadAcc(th.acc, metadata_cache), p, g))

InsertAt(t, th, p) ==
    Inserted(t, th, p,
             InfoStored(metadata_cache, CacheKey(p, tree[p].mtime),
                        ComputeInfo(p, tree[p])))

Insert(t) ==
    /\ threads[t].pc = "insert"
    /\ InsertAt(t, threads[t], threads[t].order[threads[t].i])
    /\ UNCHANGED <<tree, clock, ret,
                 user_manager, auth_enabled,
                 storage_root, user_file, cli_manager>>

\* the loop has ended: the sort of every group and the return
Returned(t, th, r) ==
    threads' = [threads EXCEPT
                   ![t] = [th EXCEPT
                              !.pc = "done",
                              !.result = [packages |-> r.packages,
                                          raised |-> r.raised]]]

Return(t) ==
    /\ threads[t].pc = "lookup"
    /\ \/ threads[t].i > Len(threads[t].order)
       \/ threads[t].acc.raised # "none"
    /\ Returned(t, threads[t],
                SortGroups(ThreadAcc(threads[t].acc, metadata_cache)))
    /\ UNCHANGED <<tree, metadata_cache, clock, ret,
                 user_manager, auth_enabled,
                 storage_root, user_file, cli_manager>>

NextConcurrent ==
    \E t \in Threads : Call(t) \/ Lookup(t) \/ Read(t) \/ Insert(t) \/ Return(t)

\* the files of the trees the concurrent requests scan: a file without
\* metadata, a wheel, and two sdists of one project
ConcurrentPaths == {pBroken, pWheel, pSdist12, pSdist110}

InitConcurrent ==
    /\ tree \in {t \in InitialTrees : Existing(t) \subseteq ConcurrentPaths}
    /\ metadata_cache = EmptyDict
    /\ clock = 1
    /\ ret = [op |-> "init"]
    /\ threads = [t \in Threads |-> Idle]
    /\ user_manager = DefaultUserManager
    /\ auth_enabled = FALSE
    /\ storage_root = "listable"
    /\ user_file = StoredUsers(user_manager)
    /\ cli_manager = None

SpecConcurrent == InitConcurrent /\ [][NextConcurrent]_vars

(***************************************************************************)
(* _parse_metadata on metadata texts: a Name line, a Description line,     *)
(* up to MaxLines lines after it, and a line that follows them.            *)
(***************************************************************************)
\* the state of a PackageManager that no operation has touched
Untouched ==
    /\ tree = [p \in Paths |-> NoFile]
    /\ metadata_cache = EmptyDict
    /\ clock = 0
    /\ threads = [t \in Threads |-> Idle]
    /\ user_manager = DefaultUserManager
    /\ auth_enabled = FALSE
    /\ storage_root = "listable"
    /\ user_file = StoredUsers(user_manager)
    /\ cli_manager = None

NameLine == <<"N","a","m","e",":"," ","w">>
DescriptionKey == <<"D","e","s","c","r","i","p","t","i","o","n",":">>

\* what follows "Description:" on its line
DescriptionValues == { <<>>, <<" ","f","i","r","s","t">> }

\* the lines after the Description line: indented, indented with a colon
\* and trailing blanks, empty, blank
ContinuationLines ==
    { <<" "," "," "," "," "," "," "," ","m","o","r","e">>, <<" "," "," "," "," "," "," "," ","N","o","t","e",":"," ","x"," "," ">>, <<>>, <<" "," "," ">> }

\* the line after them: none, a field, a field indented by two blanks
TailLines == { <<>>, <<<<"V","e","r","s","i","o","n",":"," ","1",".","0">>>>, <<<<" "," ","H","o","m","e","-","p","a","g","e",":"," ","h">>>> }

MetadataInputs ==
    [value : DescriptionValues,
     cont  : UNION {[1..n -> ContinuationLines] : n \in 0..MaxLines},
     tail  : TailLines]

\* the content of the METADATA / PKG-INFO entry
MetadataText(in) ==
    Join(<<NameLine, DescriptionKey \o in.value>> \o in.cont \o in.tail,
         <<"\n">>)

InitMetadata ==
    /\ Untouched
    /\ ret \in {[op |-> "content", input |-> in] : in \in MetadataInputs}

\* metadata = self._parse_metadata(content)
ParsedMetadata(in, content) ==
    /\ ret' = [op |-> "_parse_metadata", input |-> in, content |-> content,
               metadata |-> ParseMetadata(content)]
    /\ UNCHANGED <<tree, metadata_cache, clock, threads,
                 user_manager, auth_enabled,
                 storage_root, user_file, cli_manager>>

ParseMetadataCall ==
    /\ ret.op = "content"
    /\ ParsedMetadata(ret.input, MetadataText(ret.input))

NextMetadata == ParseMetadataCall

SpecMetadata == InitMetadata /\ [][NextMetadata]_vars

(***************************************************************************)
(* The filename step of get_package_info on filenames of the two naming    *)
(* grammars: {name}-{version}.tar.gz and                                   *)
(* {name}-{version}[-{build}]-{python}-{abi}-{platform}.whl.               *)
(***************************************************************************)
SdistNames == { <<"w","i","d","g","e","t">>, <<"W","i","d","g","e","t">>, <<"m","y","-","p","k","g">>, <<"m","y","_","p","k","g">>, <<"m","y",".","p","k","g">> }
WheelNames == { <<"w","i","d","g","e","t">>, <<"W","i","d","g","e","t">>, <<"m","y","_","p","k","g">> }
FilenameVersions ==
    { <<"1",".","0">>, <<"1",".","2",".","0">>, <<"1",".","0","r","c","1">>, <<"1",".","0",".","p","o","s","t","1">>, <<"0","1",".","0">>, <<"l","a","t","e","s","t">> }
BuildTags == { <<>>, <<"1">> }
CompatibilityTags ==
    { << <<"p","y","3">>, <<"n","o","n","e">>, <<"a","n","y">> >>,
      << <<"c","p","3","1","1">>, <<"c","p","3","1","1">>, <<"l","i","n","u","x","_","x","8","6","_","6","4">> >> }

FilenameInputs ==
    [kind : {"sdist"}, name : SdistNames, version : FilenameVersions,
     build : {<<>>}, tags : {<<>>}]
    \cup
    [kind : {"wheel"}, name : WheelNames, version : FilenameVersions,
     build : BuildTags, tags : CompatibilityTags]

\* the filename of the fields
FilenameOf(in) ==
    IF in.kind = "sdist"
    THEN in.name \o <<"-">> \o in.version \o TarGz
    ELSE Join(<<in.name, in.version>>
                \o (IF in.build = <<>> THEN <<>> ELSE <<in.build>>)
                \o in.tags, <<"-">>) \o Whl

InitFilenames ==
    /\ Untouched
    /\ ret \in {[op |-> "filename", input |-> in] : in \in FilenameInputs}

\* lines 78-112 without the archive: what the filename adds to the metadata
FilenameUpdate(filename) ==
    IF EndsWith(filename, Whl) THEN WheelFilenameUpdate(filename)
    ELSE IF EndsWith(filename, TarGz) THEN SdistFilenameUpdate(filename)
    ELSE EmptyDict

Resolved(in, filename) ==
    /\ ret' = [op |-> "resolved", input |-> in, filename |-> filename,
               update |-> FilenameUpdate(filename)]
    /\ UNCHANGED <<tree, metadata_cache, clock, threads,
                 user_manager, auth_enabled,
                 storage_root, user_file, cli_manager>>

ResolveFilename ==
    /\ ret.op = "filename"
    /\ Resolved(ret.input, FilenameOf(ret.input))

NextFilenames == ResolveFilename

SpecFilenames == InitFilenames /\ [][NextFilenames]_vars

(***************************************************************************)
(* The queries: search_packages and the handlers of server.py that list a  *)
(* package, over a data directory that holds up to MaxFiles files.         *)
(***************************************************************************)
ServedPaths == {pWheel, pWheelBad, pSdist110, pSdist12}

\* the contents a served file can have
ServedContentsFor(p) ==
    IF p = pWheel THEN {"zipmeta", "zipplain", "locked"}
    ELSE IF p = pWheelBad THEN {"ziplatest", "zipnover", "zipdesc", "zipgadget"}
    ELSE IF p = pSdist12 THEN {"tgzplain", "locked", "halfread"}
    ELSE {"tgzplain"}

ServedTrees ==
    UNION { { [p \in Paths |-> IF p \in S THEN File(cs[p], 1)
                                         ELSE NoFile] :
                cs \in {f \in [S -> ContentIds] :
                          \A p \in S : f[p] \in ServedContentsFor(p)} } :
            S \in {T \in SUBSET ServedPaths : Cardinality(T) <= MaxFiles} }

InitQueries ==
    /\ tree \in ServedTrees
    /\ metadata_cache = EmptyDict
    /\ clock = 1
    /\ ret = [op |-> "init"]
    /\ threads = [t \in Threads |-> Idle]
    /\ user_manager = DefaultUserManager
    /\ auth_enabled = FALSE
    /\ storage_root = "listable"
    /\ user_file = StoredUsers(user_manager)
    /\ cli_manager = None

\* a run is one query, sent to a server whose cache is empty or after a
\* listing has filled it (what a handler returns depends on the tree and
\* the cache only, and every handler leaves the same cache)
AwaitsQuery == ret.op \in {"init", "api_packages"}

\* the keys of the catalog in the order of insertion: the order in which
\* the scan met the first file of each group
RECURSIVE KeyOrder(_, _, _, _, _)
KeyOrder(order, i, t, cache, keys) ==
    IF i > Len(order) THEN keys
    ELSE KeyOrder(order, i + 1, t, cache,
            IF /\ IsPackageFile(order[i])
               /\ kName \in DOMAIN cache[CacheKey(order[i], t[order[i]].mtime)]
               /\ \A n \in 1..Len(keys) :
                     keys[n] # Lower(cache[CacheKey(order[i],
                                       t[order[i]].mtime)][kName])
            THEN Append(keys, Lower(cache[CacheKey(order[i],
                                       t[order[i]].mtime)][kName]))
            ELSE keys)

Unknown == <<"u","n","k","n","o","w","n">>

\* the dict appended to results for the group, with the fields of version v
SearchResult(name, versions, v) ==
    [name |-> name,
     latest_version |-> Get(v, kVersion, Unknown),
     summary |-> Get(v, kSummary, <<>>),
     description |-> Get(v, kDescription, <<>>),
     author |-> Get(v, kAuthor, <<>>),
     home_page |-> Get(v, kHomePage, <<>>),
     versions |-> [i \in 1..Len(versions) |->
                      Get(versions[i], kVersion, Unknown)]]

\* query in summary or query in description
TextMatches(v, query) ==
    \/ Contains(Lower(Get(v, kSummary, <<>>)), query)
    \/ Contains(Lower(Get(v, kDescription, <<>>)), query)

\* a scan that keeps the last version that matches
LastMatch(matches) == Max(matches)

\* the version at which the inner loop breaks
FirstMatch(matches) == Min(matches)

TextResult(name, versions, matches) ==
    IF matches = {} THEN <<>>
    ELSE <<SearchResult(name, versions, versions[FirstMatch(matches)])>>

\* one iteration of the loop over packages.items()
GroupResults(name, versions, query) ==
    IF Contains(Lower(name), query)
    THEN <<SearchResult(name, versions, versions[1])>>
    ELSE TextResult(name, versions,
            {i \in 1..Len(versions) : TextMatches(versions[i], query)})

RECURSIVE SearchGroups(_, _, _, _)
SearchGroups(keys, i, packages, query) ==
    IF i > Len(keys) THEN <<>>
    ELSE GroupResults(keys[i], packages[keys[i]], query)
           \o SearchGroups(keys, i + 1, packages, query)

\* search_packages(query)
Searched(query, order, r) ==
    /\ metadata_cache' = r.cache
    /\ ret' = [op |-> "search_packages", query |-> query,
               packages |-> r.packages,
               results |-> SearchGroups(KeyOrder(order, 1, tree, r.cache, <<>>),
                                        1, r.packages, Lower(query))]
    /\ UNCHANGED <<tree, clock, threads,
                 user_manager, auth_enabled,
                 storage_root, user_file, cli_manager>>

SearchPackages(query) ==
    /\ AwaitsQuery
    /\ \E order \in Orders(tree) :
          Searched(query, order, GetAllPackages(metadata_cache, tree, order))

\* a lookup by the name as it was requested
NameAsGiven(package_name) == package_name

\* package_name_lower = package_name.lower()
NameLower(package_name) == Lower(package_name)

\* GET /api/packages/<package_name>
PackageInfoReturned(package_name, key, r) ==
    /\ metadata_cache' = r.cache
    /\ ret' = IF key \notin DOMAIN r.packages
              THEN [op |-> "api_package_info", name |-> package_name,
                    packages |-> r.packages, status |-> 404]
              ELSE [op |-> "api_package_info", name |-> package_name,
                    packages |-> r.packages, status |-> 200,
                    files |-> r.packages[key]]
    /\ UNCHANGED <<tree, clock, threads,
                 user_manager, auth_enabled,
                 storage_root, user_file, cli_manager>>

ApiPackageInfo(package_name) ==
    /\ AwaitsQuery
    /\ \E order \in Orders(tree) :
          PackageInfoReturned(package_name, NameLower(package_name),
                              GetAllPackages(metadata_cache, tree, order))

\* the <a> of a file: href="/packages/{filename}#sha256={sha256_hash}"
FileLink(file_info) ==
    [filename |-> file_info[kFilename],
     algorithm |-> "sha256",
     digest |-> Get(file_info, kSha256, <<>>)]

\* GET /simple/<package_name>/
SimpleReturned(package_name, key, r) ==
    /\ metadata_cache' = r.cache
    /\ ret' = IF key \notin DOMAIN r.packages
              THEN [op |-> "simple_package", name |-> package_name,
                    status |-> 404]
              ELSE [op |-> "simple_package", name |-> package_name,
                    status |-> 200,
                    files |-> r.packages[key],
                    links |-> [i \in 1..Len(r.packages[key]) |->
                                  FileLink(r.packages[key][i])]]
    /\ UNCHANGED <<tree, clock, threads,
                 user_manager, auth_enabled,
                 storage_root, user_file, cli_manager>>

SimplePackage(package_name) ==
    /\ AwaitsQuery
    /\ \E order \in Orders(tree) :
          SimpleReturned(package_name, NameLower(package_name),
                         GetAllPackages(metadata_cache, tree, order))

\* GET /api/packages
PackagesReturned(r) ==
    /\ metadata_cache' = r.cache
    /\ ret' = [op |-> "api_packages", packages |-> r.packages]
    /\ UNCHANGED <<tree, clock, threads,
                 user_manager, auth_enabled,
                 storage_root, user_file, cli_manager>>

ApiPackages ==
    /\ AwaitsQuery
    /\ \E order \in Orders(tree) :
          PackagesReturned(GetAllPackages(metadata_cache, tree, order))

\* the queries and the names the clients ask for
Queries == { <<>>, <<"g","a","d">>, <<"W","I","D","G","E","T">>, <<"t","e","s","t">>, <<"z","z","z">> }
RequestedNames == { <<"w","i","d","g","e","t">>, <<"W","i","d","g","e","t">>, <<"G","A","D","G","E","T">>, <<"z","z","z">> }

NextQueries ==
    \/ \E query \in Queries : SearchPackages(query)
    \/ \E name \in RequestedNames : ApiPackageInfo(name)
    \/ \E name \in RequestedNames : SimplePackage(name)
    \/ ApiPackages

SpecQueries == InitQueries /\ [][NextQueries]_vars

(***************************************************************************)
(* Upload and download: POST /upload behind SimpleAuth.require_auth when   *)
(* authentication is enabled, GET /packages/<filename>, and the removal of *)
(* files.  datetime.now() is the clock that also stamps the files.         *)
(***************************************************************************)
\* werkzeug.utils.secure_filename on ASCII names: path separators become
\* blanks, the words are joined with "_", every character outside
\* [A-Za-z0-9_.-] is dropped, and "." and "_" are stripped from both ends
Words(parts) == SelectSeq(parts, LAMBDA w : w # <<>>)

KeepSafe(s) == SelectSeq(s, LAMBDA c : IsNameChar(c) \/ c = "-")

RECURSIVE StripDotsLeft(_)
StripDotsLeft(s) ==
    IF s # <<>> /\ s[1] \in {".", "_"} THEN StripDotsLeft(Tail(s)) ELSE s

RECURSIVE StripDotsRight(_)
StripDotsRight(s) ==
    IF s # <<>> /\ s[Len(s)] \in {".", "_"}
    THEN StripDotsRight(Slice(s, 1, Len(s) - 1)) ELSE s

SecureFilename(filename) ==
    StripDotsRight(StripDotsLeft(KeepSafe(
        Join(Words(Split(Replace(filename, <<"/">>, <<" ">>), " ")),
             <<"_">>))))

\* users.json as load_users finds it: an admin, a deactivated user, a
\* token without expiry, a token that expires at time 1, and a token of the
\* deactivated user
LoadedUserManager ==
    [users |-> ("admin" :> [password |-> "admin", active |-> TRUE,
                            last_login |-> None])
            @@ ("bob" :> [password |-> "pw", active |-> FALSE,
                          last_login |-> None]),
     tokens |-> ("t-admin" :> [username |-> "admin", expires_at |-> None])
            @@ ("t-old" :> [username |-> "admin", expires_at |-> <<1>>])
            @@ ("t-bob" :> [username |-> "bob", expires_at |-> None])]

\* the username of a request that names no user: None, and every value the
\* wrapper treats like it ("not username")
NoUser == ""

\* UserManager.authenticate(username, password) at time now: [ok, um,
\* saved]; saved tells that save_users() was called
Authenticate(um, username, password, now) ==
    IF username \notin DOMAIN um.users \/ ~um.users[username].active
    THEN [ok |-> FALSE, um |-> um, saved |-> FALSE]
    ELSE IF um.users[username].password = password
    THEN [ok |-> TRUE,
          um |-> [um EXCEPT !.users[username].last_login = <<now>>],
          saved |-> TRUE]
    ELSE [ok |-> FALSE, um |-> um, saved |-> FALSE]

\* an authenticate_token that does not look at the user of the token
TokenOwner(um, token, now) ==
    IF token \notin DOMAIN um.tokens
    THEN [username |-> NoUser, um |-> um, saved |-> FALSE]
    ELSE IF /\ um.tokens[token].expires_at # None
            /\ now > um.tokens[token].expires_at[1]
    THEN [username |-> NoUser,
          um |-> [um EXCEPT !.tokens =
                     [k \in DOMAIN um.tokens \ {token} |-> um.tokens[k]]],
          saved |-> TRUE]
    ELSE [username |-> um.tokens[token].username, um |-> um,
          saved |-> FALSE]


\* UserManager.authenticate_token(token) at time now: [username, um,
\* saved]; an expired token is deleted and the file saved
AuthenticateToken(um, token, now) ==
    IF token \notin DOMAIN um.tokens
    THEN [username |-> NoUser, um |-> um, saved |-> FALSE]
    ELSE IF /\ um.tokens[token].expires_at # None
            /\ now > um.tokens[token].expires_at[1]
    THEN [username |-> NoUser,
          um |-> [um EXCEPT !.tokens =
                     [k \in DOMAIN um.tokens \ {token} |-> um.tokens[k]]],
          saved |-> TRUE]
    ELSE IF /\ um.tokens[token].username \in DOMAIN um.users
            /\ um.users[um.tokens[token].username].active
    THEN [username |-> um.tokens[token].username, um |-> um,
          saved |-> FALSE]
    ELSE [username |-> NoUser, um |-> um, saved |-> FALSE]

\* the Authorization header of a request
NoHeader == [scheme |-> "none", token |-> "", username |-> "", password |-> ""]
Bearer(token) ==
    [scheme |-> "Bearer", token |-> token, username |-> "", password |-> ""]
Basic(username, password) ==
    [scheme |-> "Basic", token |-> "", username |-> username,
     password |-> password]

\* a wrapper that lets every request through
RequireNothing(um, header, now) ==
    [username |-> "anonymous", um |-> um, saved |-> FALSE]

\* a fallback that takes the username of every basic-auth header
BasicAccepted(header, a) ==
    [username |-> header.username, um |-> a.um, saved |-> a.saved]

\* the basic-auth fallback of the wrapper
BasicFallback(header, a) ==
    IF a.ok
    THEN [username |-> header.username, um |-> a.um, saved |-> a.saved]
    ELSE [username |-> NoUser, um |-> a.um, saved |-> a.saved]

AfterToken(header, r, now) ==
    IF r.username # NoUser \/ header.scheme # "Basic" THEN r
    ELSE BasicFallback(header,
            Authenticate(r.um, header.username, header.password, now))

\* the wrapper of SimpleAuth.require_auth(): [username, um, saved]; the
\* request is answered 401 when username is None
RequireAuth(um, header, now) ==
    IF header.scheme = "Bearer"
    THEN AfterToken(header, AuthenticateToken(um, header.token, now), now)
    ELSE AfterToken(header,
                    [username |-> NoUser, um |-> um, saved |-> FALSE], now)

\* the multipart body of a POST /upload: the 'content' part, if any, with
\* its filename and its bytes
NoPart == [content |-> FALSE, filename |-> <<>>, data |-> "zero"]
Part(filename, c) == [content |-> TRUE, filename |-> filename, data |-> c]

\* the answer to a POST /upload: the status and, for a 200, the stored
\* filename and its bytes
Response(status, filename, data) ==
    [op |-> "upload", status |-> status, filename |-> filename,
     data |-> data]

\* a request thread inside upload_package: the secured filename and the
\* bytes it read, and the statement it is about to run
Uploading(pc, filename, data) ==
    [pc |-> pc, filename |-> filename, data |-> data]

\* lines 133-155 of upload_package: the checks of the request and of the
\* target; the thread goes on to store_package when they pass
Checked(t, body, filename) ==
    IF \/ ~body.content
       \/ body.filename = <<>>
       \/ ~(EndsWith(body.filename, Whl) \/ EndsWith(body.filename, TarGz))
       \/ Contents[body.data].size = 0
    THEN /\ ret' = Response(400, <<>>, "zero")
         /\ UNCHANGED threads
    ELSE IF tree[filename].exists
    THEN /\ ret' = Response(409, <<>>, "zero")
         /\ UNCHANGED threads
    ELSE /\ threads' = [threads EXCEPT
                           ![t] = Uploading("store_package", filename,
                                            body.data)]
         /\ UNCHANGED ret

\* the request after the wrapper
Authenticated(t, body, r) ==
    /\ user_manager' = r.um
    /\ user_file' = Saved(user_file, r)
    /\ IF r.username = NoUser
       THEN /\ ret' = Response(401, <<>>, "zero")
            /\ UNCHANGED threads
       ELSE Checked(t, body, SecureFilename(body.filename))

\* POST /upload received by thread t: the wrapper and the checks
UploadPackage(t, header, body) ==
    /\ threads[t].pc = "idle"
    /\ \A u \in Threads : u < t => threads[u].pc # "idle"
    /\ IF auth_enabled
       THEN Authenticated(t, body,
                          RequireAuth(user_manager, header, clock))
       ELSE Authenticated(t, body,
                          RequireNothing(user_manager, header, clock))
    /\ UNCHANGED <<tree, metadata_cache, clock, auth_enabled,
                 storage_root, cli_manager>>

\* store_package, lines 223-226: FileExistsError, answered 500 by the
\* handler, when the file exists by now
StoreCheck(t) ==
    /\ threads[t].pc = "store_package"
    /\ IF tree[threads[t].filename].exists
       THEN /\ ret' = Response(500, <<>>, "zero")
            /\ threads' = [threads EXCEPT ![t] = Idle]
       ELSE /\ threads' = [threads EXCEPT ![t].pc = "write"]
            /\ UNCHANGED ret
    /\ UNCHANGED <<tree, metadata_cache, clock, user_manager, auth_enabled,
                 storage_root, user_file, cli_manager>>

\* store_package, lines 229-235, get_package_info of the stored file and
\* the answer 200
Written(t, filename, f) ==
    /\ clock < MaxClock
    /\ tree' = [tree EXCEPT ![filename] = f]
    /\ clock' = clock + 1
    /\ metadata_cache' = GetPackageInfo(metadata_cache, filename, f).cache
    /\ ret' = Response(200, filename, f.content)
    /\ threads' = [threads EXCEPT ![t] = Idle]
    /\ UNCHANGED <<user_manager, auth_enabled,
                 storage_root, user_file, cli_manager>>

StoreWrite(t) ==
    /\ threads[t].pc = "write"
    /\ Written(t, threads[t].filename, File(threads[t].data, clock + 1))

\* GET /packages/<filename>: [status, body]
DownloadPackage(t, filename) ==
    IF filename \in Paths /\ t[filename].exists
    THEN [status |-> 200, body |-> t[filename].content]
    ELSE [status |-> 404, body |-> "zero"]

Downloaded(requested, r) ==
    /\ ret' = [op |-> "download", requested |-> requested,
               status |-> r.status, body |-> r.body]
    /\ UNCHANGED <<tree, metadata_cache, clock, threads,
                   user_manager, auth_enabled,
                 storage_root, user_file, cli_manager>>

Download(requested) ==
    Downloaded(requested, DownloadPackage(tree, SecureFilename(requested)))

\* the filenames the clients send
pUpSdist == <<".",".","/","w","i","d","g","e","t","-","1",".","2",".","0",".","t","a","r",".","g","z">>

Headers ==
    {NoHeader, Bearer("t-admin"), Bearer("t-old"), Bearer("t-bob"),
     Bearer("bogus"), Basic("admin", "admin"), Basic("admin", "guess"),
     Basic("bob", "pw"), Basic("eve", "pw")}

Bodies ==
    {NoPart, Part(<<>>, "zipmeta"), Part(pNotes, "zipmeta"),
     Part(pWheel, "zero"), Part(pWheel, "zipmeta"), Part(pWheel, "zipplain"),
     Part(pUpSdist, "tgzplain")}

\* a server without authentication (the default of Config)
InitUpload ==
    /\ tree = [p \in Paths |-> NoFile]
    /\ metadata_cache = EmptyDict
    /\ clock = 0
    /\ ret = [op |-> "init"]
    /\ threads = [t \in Threads |-> Idle]
    /\ user_manager = DefaultUserManager
    /\ auth_enabled = FALSE
    /\ storage_root = "listable"
    /\ user_file = StoredUsers(user_manager)
    /\ cli_manager = None

NextUpload ==
    \/ \E t \in Threads : \E body \in Bodies : UploadPackage(t, NoHeader, body)
    \/ \E t \in Threads : StoreCheck(t)
    \/ \E t \in Threads : StoreWrite(t)
    \/ \E requested \in {pWheel, pUpSdist} : Download(requested)
    \/ \E p \in {pWheel, pSdist12} : ExternalRemove(p)

SpecUpload == InitUpload /\ [][NextUpload]_vars

\* a server started with PYPI_AUTH=true
AuthBodies == {NoPart, Part(pWheel, "zipmeta")}

InitAuth ==
    /\ tree = [p \in Paths |-> NoFile]
    /\ metadata_cache = EmptyDict
    /\ clock = 0
    /\ ret = [op |-> "init"]
    /\ threads = [t \in Threads |-> Idle]
    /\ user_manager = LoadedUserManager
    /\ auth_enabled = TRUE
    /\ storage_root = "listable"
    /\ user_file = StoredUsers(user_manager)
    /\ cli_manager = None

\* the clock advances between the requests
Tick ==
    /\ clock < MaxClock
    /\ clock' = clock + 1
    /\ UNCHANGED <<tree, metadata_cache, ret, threads, user_manager,
                   auth_enabled,
                 storage_root, user_file, cli_manager>>

NextAuth ==
    \/ \E t \in Threads : \E header \in Headers : \E body \in AuthBodies :
          UploadPackage(t, header, body)
    \/ \E t \in Threads : StoreCheck(t)
    \/ \E t \in Threads : StoreWrite(t)
    \/ Tick

SpecAuth == InitAuth /\ [][NextAuth]_vars

(***************************************************************************)
(* Builds over a data directory whose permissions and existence change     *)
(* after the PackageManager was constructed.                               *)
(***************************************************************************)
RootPaths == {pWheel, pSdist12, pSdist110}

InitRoot ==
    /\ tree \in {t \in InitialTrees : Existing(t) \subseteq RootPaths}
    /\ metadata_cache = EmptyDict
    /\ clock = 1
    /\ ret = [op |-> "init"]
    /\ threads = [t \in Threads |-> Idle]
    /\ user_manager = DefaultUserManager
    /\ auth_enabled = FALSE
    /\ storage_root \in RootStates
    /\ user_file = StoredUsers(user_manager)
    /\ cli_manager = None

\* chmod, rmdir/mkdir or a device failure outside the PackageManager
ChangeRoot(root) ==
    /\ storage_root' = root
    /\ ret' = [op |-> "external"]
    /\ UNCHANGED <<tree, metadata_cache, clock, threads, user_manager,
                   auth_enabled, user_file, cli_manager>>

NextRoot ==
    \/ Build
    \/ \E root \in RootStates : ChangeRoot(root)

SpecRoot == InitRoot /\ [][NextRoot]_vars

(***************************************************************************)
(* get_package_info on one file of a fresh PackageManager, for every file  *)
(* name and archive of the model.                                          *)
(***************************************************************************)
RecordPaths == {pWheel, pWheelBad, pSdist12, pSdist110, pSdistBad, pSdist000}

\* a data directory holding one file
RecordTrees ==
    {[p \in Paths |-> IF p = q THEN File(c, 1) ELSE NoFile] :
        q \in RecordPaths, c \in ContentIds}

InitRecords ==
    /\ tree \in RecordTrees
    /\ metadata_cache = EmptyDict
    /\ clock = 1
    /\ ret = [op |-> "init"]
    /\ threads = [t \in Threads |-> Idle]
    /\ user_manager = DefaultUserManager
    /\ auth_enabled = FALSE
    /\ storage_root = "listable"
    /\ user_file = StoredUsers(user_manager)
    /\ cli_manager = None

\* the archive's own metadata, before the filename is looked at
ArchiveMetadata(p, c) ==
    IF EndsWith(Basename(p), Whl) THEN ExtractWheelMetadata(c)
    ELSE ExtractSdistMetadata(c)

Inspected(p, g) ==
    /\ ret' = [op |-> "get_package_info", path |-> p, info |-> g.info,
               inspected |-> g.inspected]
    /\ metadata_cache' = g.cache
    /\ UNCHANGED <<tree, clock, threads, user_manager, auth_enabled,
                   storage_root, user_file, cli_manager>>

\* package_manager.get_package_info(file_path)
InspectFile(p) ==
    /\ tree[p].exists
    /\ Inspected(p, GetPackageInfo(metadata_cache, p, tree[p]))

NextRecords == \E p \in RecordPaths : InspectFile(p)

SpecRecords == InitRecords /\ [][NextRecords]_vars

(***************************************************************************)
(* Builds, stores and deletions over a data directory with a               *)
(* subdirectory: the same filename at the top and below old/.              *)
(***************************************************************************)
NestedPaths == {pSdist12, pOld, pSdist110}

NextNested ==
    \/ Build
    \/ \E p \in NestedPaths : \E c \in ContentsFor(p) :
          StorePackage(p, c, FALSE)
    \/ \E p \in NestedPaths : DeletePackage(p)

SpecNested == Init /\ [][NextNested]_vars

(***************************************************************************)
(* get_package_info(f) in one request thread while delete_package(f) runs  *)
(* in another, on the PackageManager they share.                           *)
(***************************************************************************)
\* a thread inside get_package_info or delete_package of the file p
Working(pc, p, key, info, raised) ==
    [pc |-> pc, path |-> p, key |-> key, info |-> info, raised |-> raised]

\* lines 56-116: exists(), the cache key, the lookup, and for a file that
\* is not cached the record built from the file
InfoLooked(t, p, f) ==
    IF ~f.exists
    THEN threads' = [threads EXCEPT
                        ![t] = Working("done", p, <<>>, EmptyDict, "none")]
    ELSE IF CacheHit(metadata_cache, p, f)
    THEN threads' = [threads EXCEPT
                        ![t] = Working("return_cached", p,
                                       CacheKey(p, f.mtime), EmptyDict,
                                       "none")]
    ELSE threads' = [threads EXCEPT
                        ![t] = Working("store", p, CacheKey(p, f.mtime),
                                       ComputeInfo(p, f), "none")]

InfoLookup(t, p) ==
    /\ threads[t].pc = "idle"
    /\ InfoLooked(t, p, tree[p])
    /\ UNCHANGED <<tree, metadata_cache, clock, ret, user_manager,
                   auth_enabled, storage_root, user_file, cli_manager>>

\* line 62: return self.metadata_cache[cache_key]
InfoRead(t) ==
    /\ threads[t].pc = "return_cached"
    /\ threads' =
          [threads EXCEPT
              ![t] = IF threads[t].key \in DOMAIN metadata_cache
                     THEN [@ EXCEPT !.pc = "done",
                                    !.info = metadata_cache[threads[t].key]]
                     ELSE [@ EXCEPT !.pc = "done", !.raised = "KeyError"]]
    /\ UNCHANGED <<tree, metadata_cache, clock, ret, user_manager,
                   auth_enabled, storage_root, user_file, cli_manager>>

\* line 119: self.metadata_cache[cache_key] = package_info
StoredInfo(cache, p, key, info) == Update(cache, (key :> info))

InfoStore(t) ==
    /\ threads[t].pc = "store"
    /\ metadata_cache' = StoredInfo(metadata_cache, threads[t].path,
                                    threads[t].key, threads[t].info)
    /\ threads' = [threads EXCEPT ![t].pc = "done"]
    /\ UNCHANGED <<tree, clock, ret, user_manager, auth_enabled,
                   storage_root, user_file, cli_manager>>

\* delete_package, lines 239-244: the existence test and the unlink
DeleteUnlink(t, p) ==
    /\ threads[t].pc = "idle"
    /\ IF tree[p].exists
       THEN /\ tree' = [tree EXCEPT ![p] = NoFile]
            /\ threads' = [threads EXCEPT
                              ![t] = Working("evict", p, <<>>, EmptyDict,
                                             "none")]
       ELSE /\ threads' = [threads EXCEPT
                              ![t] = Working("done", p, <<>>, EmptyDict,
                                             "FileNotFoundError")]
            /\ UNCHANGED tree
    /\ UNCHANGED <<metadata_cache, clock, ret, user_manager, auth_enabled,
                   storage_root, user_file, cli_manager>>

\* delete_package, lines 247-249: the keys of the file leave the cache
DeleteEvict(t) ==
    /\ threads[t].pc = "evict"
    /\ metadata_cache' =
          [key \in DOMAIN metadata_cache
                     \ KeysToRemove(metadata_cache, threads[t].path) |->
              metadata_cache[key]]
    /\ threads' = [threads EXCEPT ![t].pc = "done"]
    /\ UNCHANGED <<tree, clock, ret, user_manager, auth_enabled,
                   storage_root, user_file, cli_manager>>

\* both calls have returned; the threads take the next requests
BothDone == \A t \in Threads : threads[t].pc = "done"

Finish ==
    /\ BothDone
    /\ threads' = [t \in Threads |-> Idle]
    /\ ret' = [op |-> "finished"]
    /\ UNCHANGED <<tree, metadata_cache, clock, user_manager, auth_enabled,
                   storage_root, user_file, cli_manager>>

AllIdle == \A t \in Threads : threads[t].pc = "idle"

\* the file both requests are about
EvictPaths == {pSdist12, pSdist110}

\* the other thread is idle or works on the same file
SameFile(u, p) == IF threads[u].pc = "idle" THEN TRUE ELSE threads[u].path = p

\* the requests served while no other request is running
QuietBuild == AllIdle /\ Build

QuietStore(p, c) == AllIdle /\ StorePackage(p, c, FALSE)

GetInfo(t, u, p) == SameFile(u, p) /\ InfoLookup(t, p)

Delete(t, u, p) == SameFile(u, p) /\ DeleteUnlink(t, p)

NextEvict ==
    \/ QuietBuild
    \/ \E p \in EvictPaths : \E c \in ContentsFor(p) : QuietStore(p, c)
    \/ \E p \in EvictPaths : GetInfo(1, 2, p)
    \/ InfoRead(1)
    \/ InfoStore(1)
    \/ \E p \in EvictPaths : Delete(2, 1, p)
    \/ DeleteEvict(2)
    \/ Finish

SpecEvict == Init /\ [][NextEvict]_vars

(***************************************************************************)
(* The UserManager of a server started with PYPI_AUTH=true: logins, the    *)
(* admin's user management and the /api/tokens route.                      *)
(***************************************************************************)
\* secrets.token_urlsafe(32): a value that no earlier call returned, named
\* here by the time of the call
TokenUrlsafe(now) == <<"t-1", "t-2", "t-3", "t-4", "t-5", "t-6">>[now]

\* UserManager.deactivate_user(username): [ok, um, saved]
DeactivateUser(um, username) ==
    IF username \in DOMAIN um.users
    THEN [ok |-> TRUE, um |-> [um EXCEPT !.users[username].active = FALSE],
          saved |-> TRUE]
    ELSE [ok |-> FALSE, um |-> um, saved |-> FALSE]

\* UserManager.activate_user(username): [ok, um, saved]
ActivateUser(um, username) ==
    IF username \in DOMAIN um.users
    THEN [ok |-> TRUE, um |-> [um EXCEPT !.users[username].active = TRUE],
          saved |-> TRUE]
    ELSE [ok |-> FALSE, um |-> um, saved |-> FALSE]

\* UserManager.revoke_token(token): [ok, um, saved]
RevokeToken(um, token) ==
    IF token \in DOMAIN um.tokens
    THEN [ok |-> TRUE,
          um |-> [um EXCEPT !.tokens =
                     [k \in DOMAIN um.tokens \ {token} |-> um.tokens[k]]],
          saved |-> TRUE]
    ELSE [ok |-> FALSE, um |-> um, saved |-> FALSE]

\* UserManager.create_token(username, name, expires_days) at time now:
\* [token, um, saved]; ValueError (token None) for an unknown user
CreateToken(um, username, expires_days, now) ==
    IF username \notin DOMAIN um.users
    THEN [token |-> NoUser, um |-> um, saved |-> FALSE]
    ELSE [token |-> TokenUrlsafe(now),
          um |-> [um EXCEPT !.tokens =
                     Update(um.tokens,
                            (TokenUrlsafe(now) :>
                               [username |-> username,
                                expires_at |-> IF expires_days = 0 THEN None
                                               ELSE <<now + expires_days>>]))],
          saved |-> TRUE]

Usernames == {"admin", "bob", "eve"}
Passwords == {"admin", "pw"}
Tokens == {"t-admin", "t-old", "t-bob", "t-2"}
\* the tokens that are revoked and the users that get new tokens
Revocable == {"t-admin", "t-2"}
Owners == {"admin", "eve"}
\* the users the admin deactivates and activates
Switched == {"admin", "eve"}
ExpiresDays == {0, 1}

\* what a call of the UserManager leaves behind: the new manager, the file
\* when the call saved it, and the returned value
Called(r, returned) ==
    /\ user_manager' = r.um
    /\ user_file' = Saved(user_file, r)
    /\ ret' = returned
    /\ UNCHANGED <<tree, metadata_cache, clock, threads, auth_enabled,
                   storage_root, cli_manager>>

LoggedIn(username, password, r) ==
    Called(r, [op |-> "authenticate", username |-> username,
               password |-> password, ok |-> r.ok])

\* user_manager.authenticate(username, password)
Login(username, password) ==
    /\ auth_enabled
    /\ LoggedIn(username, password,
                Authenticate(user_manager, username, password, clock))

TokenChecked(token, r) ==
    Called(r, [op |-> "authenticate_token", token |-> token,
               username |-> r.username,
               expired |-> token \notin DOMAIN r.um.tokens
                           /\ token \in DOMAIN user_manager.tokens])

\* user_manager.authenticate_token(token)
TokenLogin(token) ==
    /\ auth_enabled
    /\ TokenChecked(token, AuthenticateToken(user_manager, token, clock))

Switch(op, username, r) ==
    Called(r, [op |-> op, username |-> username, ok |-> r.ok])

\* POST /admin/users with action 'deactivate' by the admin
Deactivate(username) ==
    /\ auth_enabled
    /\ Switch("deactivate_user", username,
                DeactivateUser(user_manager, username))

\* POST /admin/users with action 'activate' by the admin
Activate(username) ==
    /\ auth_enabled
    /\ Switch("activate_user", username,
                ActivateUser(user_manager, username))

Revoked(token, r) ==
    Called(r, [op |-> "revoke_token", token |-> token, ok |-> r.ok])

\* user_manager.revoke_token(token)
Revoke(token) ==
    /\ auth_enabled
    /\ Revoked(token, RevokeToken(user_manager, token))

\* the tokens created since the users were loaded
Created(um) == DOMAIN um.tokens \ DOMAIN LoadedUserManager.tokens

TokenCreated(username, r) ==
    /\ user_manager' = r.um
    /\ user_file' = Saved(user_file, r)
    /\ ret' = [op |-> "create_token", username |-> username,
               token |-> r.token]

\* user_manager.create_token(username, name, expires_days), at the time
\* after the clock advanced
Create(username, expires_days) ==
    /\ auth_enabled
    /\ clock < MaxClock
    /\ Cardinality(Created(user_manager)) < MaxCreated
    /\ clock' = clock + 1
    /\ TokenCreated(username,
                    CreateToken(user_manager, username, expires_days,
                                clock + 1))
    /\ UNCHANGED <<tree, metadata_cache, threads, auth_enabled,
                   storage_root, cli_manager>>

\* the answer of /api/tokens
TokensResponse(method, username, token, status) ==
    [op |-> "api_tokens", method |-> method, username |-> username,
     token |-> token, status |-> status]

\* DELETE /api/tokens of the user the wrapper a let through: the token of
\* the request body is revoked
TokensDeleted(a, token, r) ==
    Called([r EXCEPT !.saved = a.saved \/ r.saved],
           TokensResponse("DELETE", a.username, token,
                          IF r.ok THEN 200 ELSE 404))

TokensDelete(token, a) ==
    IF a.username = NoUser
    THEN Called(a, TokensResponse("DELETE", NoUser, token, 401))
    ELSE TokensDeleted(a, token, RevokeToken(a.um, token))

\* DELETE /api/tokens with the Authorization header and the token of the body
ApiTokensDelete(header, token) ==
    /\ auth_enabled
    /\ TokensDelete(token, RequireAuth(user_manager, header, clock))

\* POST /api/tokens of the user the wrapper a let through, at the time
\* after the clock advanced
TokensPosted(a, r) ==
    /\ user_manager' = r.um
    /\ user_file' = Saved(user_file, [r EXCEPT !.saved = a.saved \/ r.saved])
    /\ ret' = TokensResponse("POST", a.username, r.token, 200)

TokensPost(expires_days, a) ==
    IF a.username = NoUser
    THEN /\ user_manager' = a.um
         /\ user_file' = Saved(user_file, a)
         /\ ret' = TokensResponse("POST", NoUser, NoUser, 401)
    ELSE TokensPosted(a, CreateToken(a.um, a.username, expires_days,
                                     clock + 1))

\* POST /api/tokens with the Authorization header and expires_days
ApiTokensPost(header, expires_days) ==
    /\ auth_enabled
    /\ clock < MaxClock
    /\ Cardinality(Created(user_manager)) < MaxCreated
    /\ clock' = clock + 1
    /\ TokensPost(expires_days, RequireAuth(user_manager, header, clock + 1))
    /\ UNCHANGED <<tree, metadata_cache, threads, auth_enabled,
                   storage_root, cli_manager>>

TokenHeaders ==
    {NoHeader, Bearer("t-admin"), Bearer("t-old"), Bearer("t-2"),
     Basic("bob", "pw"), Basic("admin", "guess")}

\* the server at time 1, its users loaded from users.json
InitUsers ==
    /\ tree = [p \in Paths |-> NoFile]
    /\ metadata_cache = EmptyDict
    /\ clock = 1
    /\ ret = [op |-> "init"]
    /\ threads = [t \in Threads |-> Idle]
    /\ user_manager = LoadedUserManager
    /\ auth_enabled = TRUE
    /\ storage_root = "listable"
    /\ user_file = StoredUsers(user_manager)
    /\ cli_manager = None

NextUsers ==
    \/ \E username \in Usernames : \E password \in Passwords :
          Login(username, password)
    \/ \E token \in Tokens : TokenLogin(token)
    \/ \E username \in Switched : Deactivate(username)
    \/ \E username \in Switched : Activate(username)
    \/ \E token \in Revocable : Revoke(token)
    \/ \E username \in Owners : \E expires_days \in ExpiresDays :
          Create(username, expires_days)
    \/ Tick

SpecUsers == InitUsers /\ [][NextUsers]_vars

\* the /api/tokens route, with the admin activating users
NextTokens ==
    \/ \E header \in TokenHeaders : \E token \in Tokens :
          ApiTokensDelete(header, token)
    \/ \E header \in TokenHeaders : \E expires_days \in ExpiresDays :
          ApiTokensPost(header, expires_days)
    \/ \E username \in Usernames : Activate(username)
    \/ Tick

SpecTokens == InitUsers /\ [][NextTokens]_vars

(***************************************************************************)
(* The server and the command-line tool, each with its own UserManager     *)
(* over the same users.json.                                               *)
(***************************************************************************)
\* UserManager.create_user(username, password): [ok, um, saved]; ValueError
\* (ok FALSE) for a user that exists
CreateUser(um, username, password) ==
    IF username \in DOMAIN um.users
    THEN [ok |-> FALSE, um |-> um, saved |-> FALSE]
    ELSE [ok |-> TRUE,
          um |-> [um EXCEPT !.users =
                     Update(um.users,
                            (username :> [password |-> password,
                                          active |-> TRUE,
                                          last_login |-> None]))],
          saved |-> TRUE]

\* lines 24-33 of load_users: the users and tokens of the file, and none
\* when the file is missing or cannot be read or parsed
ReadUsers(file) ==
    IF file.exists /\ file.loads
    THEN [users |-> file.data.users, tokens |-> file.data.tokens]
    ELSE [users |-> <<>>, tokens |-> <<>>]

\* lines 36-37 of load_users: the default admin for a manager without users
EnsureAdmin(um) ==
    IF DOMAIN um.users = {}
    THEN CreateUser(um, "admin", "admin")
    ELSE [ok |-> FALSE, um |-> um, saved |-> FALSE]

\* UserManager(user_file): [ok, um, saved]
LoadUsers(file) == EnsureAdmin(ReadUsers(file))

\* users.json is not there
MissingFile ==
    [exists |-> FALSE, loads |-> FALSE,
     data |-> [users |-> <<>>, tokens |-> <<>>]]

\* the server process starts: user_manager = UserManager()
Started(r) ==
    /\ user_manager' = r.um
    /\ user_file' = Saved(user_file, r)
    /\ ret' = [op |-> "load_users", by |-> "server", created |-> r.ok]
    /\ UNCHANGED <<tree, metadata_cache, clock, threads, auth_enabled,
                   storage_root, cli_manager>>

ServerStart ==
    /\ auth_enabled
    /\ Started(LoadUsers(user_file))

\* cmd_user, line 54: the tool constructs its UserManager
CliLoaded(r) ==
    /\ cli_manager' = r.um
    /\ user_file' = Saved(user_file, r)
    /\ ret' = [op |-> "load_users", by |-> "cli", created |-> r.ok]
    /\ UNCHANGED <<tree, metadata_cache, clock, threads, auth_enabled,
                   storage_root, user_manager>>

CliStart ==
    /\ cli_manager = None
    /\ CliLoaded(LoadUsers(user_file))

\* the tool ran its command and exits
CliDone(action, username, r) ==
    /\ cli_manager' = None
    /\ user_file' = Saved(user_file, r)
    /\ ret' = [op |-> "cmd_user", action |-> action, username |-> username,
               ok |-> r.ok]
    /\ UNCHANGED <<tree, metadata_cache, clock, threads, auth_enabled,
                   storage_root, user_manager>>

\* pypi-clone user delete <username>
CliDelete(username) ==
    /\ cli_manager # None
    /\ CliDone("delete", username, DeactivateUser(cli_manager, username))

\* pypi-clone user create <username>
CliCreate(username, password) ==
    /\ cli_manager # None
    /\ CliDone("create", username,
               CreateUser(cli_manager, username, password))

\* a partial write, an editor or a disk error leaves text that json.load
\* rejects
DamageFile ==
    /\ user_file.exists
    /\ user_file.loads
    /\ user_file' = [user_file EXCEPT !.loads = FALSE]
    /\ UNCHANGED <<tree, metadata_cache, clock, ret, threads, user_manager,
                   auth_enabled, storage_root, cli_manager>>

\* the operator removes users.json
RemoveFile ==
    /\ user_file.exists
    /\ user_file' = MissingFile
    /\ UNCHANGED <<tree, metadata_cache, clock, ret, threads, user_manager,
                   auth_enabled, storage_root, cli_manager>>

\* the users of the requests and of the commands
SharedUsers == {"admin", "bob"}

NextShared ==
    \/ \E username \in SharedUsers : Login(username, "admin")
    \/ ServerStart
    \/ CliStart
    \/ \E username \in SharedUsers : CliDelete(username)
    \/ CliCreate("eve", "pw")
    \/ DamageFile
    \/ RemoveFile

SpecShared == InitUsers /\ [][NextShared]_vars

(***************************************************************************)
(* Properties.                                                             *)
(***************************************************************************)
IsBuild == ret.op = "get_all_packages"

\* the name of the file ends in .whl or .tar.gz
HasPackageSuffix(p) == EndsWith(Basename(p), Whl) \/ EndsWith(Basename(p), TarGz)

PackageFiles(t) == {p \in Existing(t) : HasPackageSuffix(p)}

\* the entries of a catalog that stand for the file p
EntriesOf(packages, p) ==
    {e \in UNION {{packages[n][i] : i \in 1..Len(packages[n])} :
                     n \in DOMAIN packages} : e[kPath] = p}

\* the archive cannot be opened as the format its suffix names, or holds no
\* metadata entry
NoMetadata(p, c) ==
    \/ ~Contents[c].readable
    \/ ~Contents[c].member
    \/ Contents[c].format # (IF EndsWith(p, Whl) THEN "zip" ELSE "tgz")

\* C1: after get_all_packages, every file of the tree whose name ends in
\* .whl or .tar.gz has an entry in the returned catalog.
C1_EveryFileHasEntry ==
    IsBuild => \A p \in PackageFiles(tree) : EntriesOf(ret.packages, p) # {}

\* v1 > v2 for two parseable version strings
VersionGreater(v1, v2) ==
    KeyLess(CmpKey(ParseVersion(v2)), CmpKey(ParseVersion(v1)))

HasValidVersion(e) == kVersion \in DOMAIN e /\ IsValidVersion(e[kVersion])
HasInvalidVersion(e) == kVersion \in DOMAIN e /\ ~IsValidVersion(e[kVersion])

\* C2: in every group of the returned catalog, of two entries with
\* parseable versions the one with the greater version comes first.
C2_GroupsSortedDescending ==
    IsBuild =>
        \A n \in DOMAIN ret.packages :
            \A i, j \in 1..Len(ret.packages[n]) :
                (/\ HasValidVersion(ret.packages[n][i])
                 /\ HasValidVersion(ret.packages[n][j])
                 /\ VersionGreater(ret.packages[n][i][kVersion],
                                   ret.packages[n][j][kVersion]))
                => i < j

\* a build that met 1.2.0 before 1.10.0 and returned 1.10.0 first
C2_Witness ==
    /\ IsBuild
    /\ ret.order = <<pSdist12, pSdist110>>
    /\ ret.packages[<<"w","i","d","g","e","t">>][1][kPath] = pSdist110
    /\ ret.packages[<<"w","i","d","g","e","t">>][2][kPath] = pSdist12

\* C3: in every group of the returned catalog, an entry with a parseable
\* version comes before every entry with an unparseable version.
C3_UnparseableLast ==
    IsBuild =>
        \A n \in DOMAIN ret.packages :
            \A i, j \in 1..Len(ret.packages[n]) :
                (/\ HasValidVersion(ret.packages[n][i])
                 /\ HasInvalidVersion(ret.packages[n][j]))
                => i < j

\* C4: a build inspects exactly the files whose (path, modification time)
\* key is not in the cache; a cached record is returned and kept unchanged;
\* an inspected file's record is stored under its current key; a build that
\* directly follows a build inspects nothing.
C4_BuildStep ==
    ret'.op = "get_all_packages" =>
        /\ ret'.inspected =
              {p \in PackageFiles(tree) :
                  CacheKey(p, tree[p].mtime) \notin DOMAIN metadata_cache}
        /\ \A p \in PackageFiles(tree) :
              /\ CacheKey(p, tree[p].mtime) \in DOMAIN metadata_cache'
              /\ metadata_cache'[CacheKey(p, tree[p].mtime)][kUpload]
                    = tree[p].mtime
              /\ metadata_cache'[CacheKey(p, tree[p].mtime)][kSize]
                    = Contents[tree[p].content].size
              /\ CacheKey(p, tree[p].mtime) \in DOMAIN metadata_cache =>
                    /\ metadata_cache'[CacheKey(p, tree[p].mtime)]
                          = metadata_cache[CacheKey(p, tree[p].mtime)]
                    /\ \A e \in EntriesOf(ret'.packages, p) :
                          e = metadata_cache[CacheKey(p, tree[p].mtime)]
        /\ (ret.op = "get_all_packages" => ret'.inspected = {})

C4_InspectedIffNotCached == [][C4_BuildStep]_vars

\* a build that reused the record of one file and recomputed the record of
\* a file cached before under an older modification time
C4_Witness ==
    /\ IsBuild
    /\ \E p \in PackageFiles(tree) : p \notin ret.inspected
    /\ \E p \in ret.inspected : \E m \in 1..clock :
          /\ m # tree[p].mtime
          /\ CacheKey(p, m) \in DOMAIN metadata_cache

\* C5: the catalog a build returns is the catalog a PackageManager with an
\* empty cache returns for the same tree (every write has given the file a
\* modification time it did not have before).
C5_CatalogIsFresh ==
    IsBuild =>
        ret.packages = GetAllPackages(EmptyDict, tree, ret.order).packages

\* a build served from the cache while the cache also holds the record of a
\* file that was rewritten or removed since
C5_Witness ==
    /\ IsBuild
    /\ ret.inspected = {}
    /\ DOMAIN ret.packages # {}
    /\ \E p \in Paths : \E m \in 1..clock :
          /\ CacheKey(p, m) \in DOMAIN metadata_cache
          /\ (~tree[p].exists \/ tree[p].mtime # m)

\* C6: every record of the cache has a name and a version.
C6_NameAndVersionPopulated ==
    \A key \in DOMAIN metadata_cache :
        /\ kName \in DOMAIN metadata_cache[key]
        /\ kVersion \in DOMAIN metadata_cache[key]

\* C7: get_all_packages returns without raising, and no file ends the
\* scan: every package file was looked at (its record is in the cache) and
\* is either in the catalog or among the files whose error was absorbed.
C7_BuildNeverRaises ==
    IsBuild =>
        /\ ret.raised = "none"
        /\ \A p \in PackageFiles(tree) :
              /\ CacheKey(p, tree[p].mtime) \in DOMAIN metadata_cache
              /\ (p \in ret.errors) # (EntriesOf(ret.packages, p) # {})

\* a build that absorbed the error of one file and sorted a group with an
\* unparseable version
C7_Witness ==
    /\ IsBuild
    /\ ret.errors # {}
    /\ \E n \in DOMAIN ret.packages : \E i \in 1..Len(ret.packages[n]) :
          HasInvalidVersion(ret.packages[n][i])

\* the name and the version a filename of either grammar spells
FilenameFields(p) ==
    IF EndsWith(p, Whl)
    THEN <<Split(p, "-")[1], Split(p, "-")[2]>>
    ELSE <<Slice(p, 1, Max(Occurrences(p, <<"-">>)) - 1),
           Slice(p, Max(Occurrences(p, <<"-">>)) + 1, Len(p) - Len(TarGz))>>

MatchesGrammar(p) ==
    IF EndsWith(p, Whl) THEN ParseWheelFilename(p).ok
    ELSE EndsWith(p, TarGz) /\ ParseSdistFilename(p).ok

\* C8: a file whose archive is unreadable or has no metadata entry and
\* whose filename matches its grammar is in the catalog under the name of
\* the filename, with the name and the version of the filename.
C8_FilenameOnlyMetadata ==
    IsBuild =>
        \A p \in PackageFiles(tree) :
            (MatchesGrammar(p) /\ NoMetadata(p, tree[p].content)) =>
                /\ Lower(FilenameFields(p)[1]) \in DOMAIN ret.packages
                /\ \E i \in 1..Len(ret.packages[Lower(FilenameFields(p)[1])]) :
                      LET e == ret.packages[Lower(FilenameFields(p)[1])][i]
                      IN  /\ e[kPath] = p
                          /\ Lower(e[kName]) = Lower(FilenameFields(p)[1])
                          /\ e[kVersion] = FilenameFields(p)[2]

\* C9: after a successful delete_package(f), f is not in the tree and the
\* cache has no key of f, whatever the modification time.
C9_DeleteEvictsEveryKey ==
    (ret.op = "delete_package" /\ ret.raised = "none") =>
        /\ ~tree[ret.path].exists
        /\ \A m \in 1..clock :
              CacheKey(ret.path, m) \notin DOMAIN metadata_cache

\* a delete that removed the records of two modification times of the file
C9_Witness ==
    /\ ret.op = "delete_package"
    /\ ret.raised = "none"
    /\ Cardinality(ret.removed) >= 2

\* the catalog and the outcome of a sequential get_all_packages
SequentialResult(r) == [packages |-> r.packages, raised |-> r.raised]

\* the record get_package_info builds for the file of a key
CompleteRecord(key, rec) ==
    \E p \in PackageFiles(tree) :
        /\ key = CacheKey(p, tree[p].mtime)
        /\ rec = ComputeInfo(p, tree[p])

\* C10: under every interleaving of the cache lookups and inserts of two
\* get_all_packages calls over the same unchanged tree, a call that has
\* returned has returned the catalog of a sequential build of its
\* enumeration, and once both calls have returned the cache has a record
\* for each package file of the tree and for nothing else, each the
\* complete record of its (path, modification time) key.
C10_ConcurrentBuildsAgree ==
    /\ \A t \in Threads :
          threads[t].pc = "done" =>
              threads[t].result =
                  SequentialResult(
                      GetAllPackages(EmptyDict, tree, threads[t].order))
    /\ (\A t \in Threads : threads[t].pc = "done") =>
          /\ DOMAIN metadata_cache =
                 {CacheKey(p, tree[p].mtime) : p \in PackageFiles(tree)}
          /\ \A key \in DOMAIN metadata_cache :
                 CompleteRecord(key, metadata_cache[key])

\* both calls have returned, both missed the cache on the same file and
\* inspected it, and the file is in the catalog of each
C10_Witness ==
    /\ \A t \in Threads : threads[t].pc = "done"
    /\ \E p \in threads[1].acc.inspected \cap threads[2].acc.inspected :
          \A t \in Threads : EntriesOf(threads[t].result.packages, p) # {}

\* the keys of the fields of a metadata input
InputKeys(in) ==
    {kName, kDescription}
        \cup (IF in.tail = <<<<"V","e","r","s","i","o","n",":"," ","1",".","0">>>> THEN {kVersion} ELSE {})
        \cup (IF in.tail = <<<<" "," ","H","o","m","e","-","p","a","g","e",":"," ","h">>>> THEN {kHomePage} ELSE {})

\* the only fields are those of the key lines (no continuation line became
\* a field), and the line after the continuation was parsed as a field
FieldsOfKeyLines(in, metadata) ==
    /\ DOMAIN metadata = InputKeys(in)
    /\ metadata[kName] = <<"w">>
    /\ kVersion \in DOMAIN metadata => metadata[kVersion] = <<"1",".","0">>
    /\ kHomePage \in DOMAIN metadata => metadata[kHomePage] = <<"h">>

\* C15 as stated: the description is the key line's value followed by the
\* continuation lines as they are, joined by newlines and trimmed once
C15_DescriptionVerbatim ==
    ret.op = "_parse_metadata" =>
        /\ FieldsOfKeyLines(ret.input, ret.metadata)
        /\ ret.metadata[kDescription] =
              Strip(Join(<<ret.input.value>> \o ret.input.cont, <<"\n">>))

\* C15: the description _parse_metadata returns is the key line's value
\* followed by the continuation lines (blank lines and lines that begin
\* with eight spaces) in their order, each without its trailing whitespace,
\* joined by newlines and trimmed once; the continuation ends at the first
\* line that is neither, which is parsed as a field, and no continuation
\* line becomes a field even when it holds a colon.
C15_DescriptionReassembled ==
    ret.op = "_parse_metadata" =>
        /\ FieldsOfKeyLines(ret.input, ret.metadata)
        /\ ret.metadata[kDescription] =
              Strip(Join([n \in 1..(1 + Len(ret.input.cont)) |->
                            RStrip((<<ret.input.value>> \o ret.input.cont)[n])],
                         <<"\n">>))

\* a description of a value, a continuation line with a colon, a blank line
\* and an indented line, followed by a field
C15_Witness ==
    /\ ret.op = "_parse_metadata"
    /\ ret.input.value # <<>>
    /\ ret.input.cont = << <<" "," "," "," "," "," "," "," ","N","o","t","e",":"," ","x"," "," ">>, <<>>, <<" "," "," "," "," "," "," "," ","m","o","r","e">> >>
    /\ ret.input.tail = <<<<"V","e","r","s","i","o","n",":"," ","1",".","0">>>>
    /\ ret.metadata[kDescription] = <<"f","i","r","s","t","\n"," "," "," "," "," "," "," "," ","N","o","t","e",":"," ","x","\n","\n"," "," "," "," "," "," "," "," ","m","o","r","e">>

\* C16: for the filename {name}-{version}.tar.gz the name resolved is the
\* text before the last hyphen, lower-cased and not changed otherwise, and
\* the version resolved is the text after the last hyphen.
C16_SdistPairIsTextualSplit ==
    (ret.op = "resolved" /\ ret.input.kind = "sdist") =>
        /\ kName \in DOMAIN ret.update
        /\ kVersion \in DOMAIN ret.update
        /\ ret.update[kName] = Lower(ret.input.name)
        /\ ret.update[kVersion] = ret.input.version

\* C17: for a wheel filename of grammar A the filename step gives the name
\* and the version of the filename and the python, abi and platform tags
\* (and the build tag when the filename has one).
C17_WheelFilenameResolved ==
    (ret.op = "resolved" /\ ret.input.kind = "wheel"
        /\ IsValidVersion(ret.input.version)) =>
        /\ {kName, kVersion, kPyTag, kAbiTag, kPlatTag} \subseteq DOMAIN ret.update
        /\ Lower(ret.update[kName]) = Lower(ret.input.name)
        /\ ret.update[kPyTag] = ret.input.tags[1]
        /\ ret.update[kAbiTag] = ret.input.tags[2]
        /\ ret.update[kPlatTag] = ret.input.tags[3]
        /\ ret.input.build # <<>> => kBuildTag \in DOMAIN ret.update

\* C11: search_packages called with the empty query returns no result.
C11_EmptyQueryReturnsNothing ==
    (ret.op = "search_packages" /\ ret.query = <<>>) => ret.results = <<>>

\* q is, letter case aside, a part of the summary or the description of v
HasText(v, q) ==
    \/ Contains(Lower(Get(v, kSummary, <<>>)), Lower(q))
    \/ Contains(Lower(Get(v, kDescription, <<>>)), Lower(q))

HasName(n, q) == Contains(Lower(n), Lower(q))

\* the result reports the fields of the version v
ReportsVersion(result, v) ==
    /\ result.latest_version = Get(v, kVersion, Unknown)
    /\ result.summary = Get(v, kSummary, <<>>)
    /\ result.description = Get(v, kDescription, <<>>)

\* the results of the group n are right for the query q
GroupAnswered(results, n, versions, q) ==
    LET mine == {i \in 1..Len(results) : results[i].name = n}
        text == {i \in 1..Len(versions) : HasText(versions[i], q)}
    IN  IF HasName(n, q)
        THEN /\ Cardinality(mine) = 1
             /\ \A i \in mine : ReportsVersion(results[i], versions[1])
        ELSE IF text # {}
        THEN /\ Cardinality(mine) = 1
             /\ \A i \in mine :
                   ReportsVersion(results[i], versions[Min(text)])
        ELSE mine = {}

\* C12: for a non-empty query, search_packages returns one result for each
\* group whose name, or the summary or description of one of whose
\* versions, holds the query regardless of letter case, and none for any
\* other group; a name match reports the first version of the group, a
\* text match the first version whose summary or description matches.
C12_SearchFindsMatchingGroups ==
    (ret.op = "search_packages" /\ ret.query # <<>>) =>
        /\ \A i \in 1..Len(ret.results) :
              ret.results[i].name \in DOMAIN ret.packages
        /\ \A n \in DOMAIN ret.packages :
              GroupAnswered(ret.results, n, ret.packages[n], ret.query)

\* a query that a group of two versions matches only by the text of its
\* second version, whose fields the result reports
C12_Witness ==
    /\ ret.op = "search_packages"
    /\ ret.query = <<"t","e","s","t">>
    /\ \E i \in 1..Len(ret.results) :
          /\ ~HasName(ret.results[i].name, ret.query)
          /\ Len(ret.packages[ret.results[i].name]) = 2
          /\ ~HasText(ret.packages[ret.results[i].name][1], ret.query)
          /\ ReportsVersion(ret.results[i],
                            ret.packages[ret.results[i].name][2])

\* every entry of a catalog
AllEntries(packages) ==
    UNION {{packages[n][i] : i \in 1..Len(packages[n])} : n \in DOMAIN packages}

\* C13: every key of the catalog is lower-case, and the listing of a name n
\* answers 200 with the group of all entries whose name lower-cased is
\* lower(n), and 404 exactly when the catalog has no such entry.
C13_LookupIsCaseInsensitive ==
    ret.op = "api_package_info" =>
        /\ \A k \in DOMAIN ret.packages : k = Lower(k)
        /\ ret.status \in {200, 404}
        /\ ret.status = 404 <=>
              ~\E e \in AllEntries(ret.packages) :
                  Lower(e[kName]) = Lower(ret.name)
        /\ ret.status = 200 =>
              {ret.files[i] : i \in 1..Len(ret.files)} =
                  {e \in AllEntries(ret.packages) :
                      Lower(e[kName]) = Lower(ret.name)}

\* a name asked in capitals finds the group of two files, one of them named
\* with a capital letter in its metadata
C13_Witness ==
    /\ ret.op = "api_package_info"
    /\ ret.name = <<"W","i","d","g","e","t">>
    /\ ret.status = 200
    /\ Len(ret.files) = 2
    /\ \E i \in 1..2 : ret.files[i][kName] = <<"W","i","d","g","e","t">>

\* C14: a file that cannot be read for a digest has the empty string as
\* this digest in its record and is in the catalog with its filename, size
\* and modification time.
C14_DigestFailureKeepsFile ==
    ret.op = "api_packages" =>
        \A p \in PackageFiles(tree) :
            (~Opens(tree[p].content, 1) \/ ~Opens(tree[p].content, 2)) =>
                /\ ~Opens(tree[p].content, 1) =>
                      metadata_cache[CacheKey(p, tree[p].mtime)][kMd5] = <<>>
                /\ ~Opens(tree[p].content, 2) =>
                      metadata_cache[CacheKey(p, tree[p].mtime)][kSha256] = <<>>
                /\ \E e \in EntriesOf(ret.packages, p) :
                      /\ e[kFilename] = Basename(p)
                      /\ e[kSize] = Contents[tree[p].content].size
                      /\ e[kUpload] = tree[p].mtime

\* C20: the link of a file on the page of its package carries the SHA-256
\* digest of the record when there is one, otherwise the MD5 digest when
\* there is one.
C20_LinkCarriesStrongestDigest ==
    (ret.op = "simple_package" /\ ret.status = 200) =>
        \A i \in 1..Len(ret.files) :
            IF ret.files[i][kSha256] # <<>>
            THEN /\ ret.links[i].algorithm = "sha256"
                 /\ ret.links[i].digest = ret.files[i][kSha256]
            ELSE ret.files[i][kMd5] # <<>> =>
                    /\ ret.links[i].algorithm = "md5"
                    /\ ret.links[i].digest = ret.files[i][kMd5]


\* the answer of GET /packages/f on a storage tree
Serves(t, f, d) == DownloadPackage(t, f) = [status |-> 200, body |-> d]

\* C18: when POST /upload answers 200 with filename f, GET /packages/f
\* answers 200 with the uploaded bytes, every GET /packages/<name> answers
\* from the stored file, and the answer for a stored file stays the same
\* in every step that does not remove the file.
C18_UploadedFileIsServed ==
    [][/\ (ret'.op = "upload" /\ ret'.status = 200 /\ ret' # ret)
            => Serves(tree', ret'.filename, ret'.data)
       /\ (ret'.op = "download" /\ ret' # ret)
            => [status |-> ret'.status, body |-> ret'.body]
                 = DownloadPackage(tree, SecureFilename(ret'.requested))
       /\ \A f \in {pWheel, pSdist12} :
             (tree[f].exists /\ tree'[f].exists)
                => Serves(tree', f, tree[f].content)]_vars

\* the header carries a known, unexpired token of an active user
ValidToken(header) ==
    /\ header.scheme = "Bearer"
    /\ header.token \in DOMAIN user_manager.tokens
    /\ \/ user_manager.tokens[header.token].expires_at = None
       \/ clock <= user_manager.tokens[header.token].expires_at[1]
    /\ user_manager.tokens[header.token].username \in DOMAIN user_manager.users
    /\ user_manager.users[user_manager.tokens[header.token].username].active

\* the header carries the username and the password of an active user
ValidBasic(header) ==
    /\ header.scheme = "Basic"
    /\ header.username \in DOMAIN user_manager.users
    /\ user_manager.users[header.username].active
    /\ user_manager.users[header.username].password = header.password

\* C19: with authentication enabled, a POST /upload that carries neither a
\* valid unexpired Bearer token nor the username and password of an active
\* user is answered 401, and the storage tree and the cache are unchanged;
\* the request does not go on to store_package.
C19_UnauthenticatedUploadRejected ==
    [][\A t \in Threads : \A header \in Headers : \A body \in AuthBodies :
          (/\ auth_enabled
           /\ ~ValidToken(header)
           /\ ~ValidBasic(header)
           /\ UploadPackage(t, header, body))
             => /\ ret' = Response(401, <<>>, "zero")
                /\ tree' = tree
                /\ metadata_cache' = metadata_cache
                /\ threads'[t] = Idle]_vars

\* an upload was answered 401 with a file in the storage tree, after the
\* expired token was presented and dropped
C19_Witness ==
    /\ auth_enabled
    /\ ret = Response(401, <<>>, "zero")
    /\ tree[pWheel].exists
    /\ metadata_cache # EmptyDict
    /\ "t-old" \notin DOMAIN user_manager.tokens


\* a step of get_all_packages
BuildStep == ret'.op = "get_all_packages" /\ ret' # ret

\* C21: a build over a storage root that cannot be enumerated raises to its
\* caller instead of returning a catalog, and a build raises in no other
\* case.
C21_UnlistableRootRaises ==
    [][BuildStep => (ret'.raised # "none" <=> storage_root # "listable")]_vars


\* the file a get_package_info call has just looked at, and its archive
InfoReturned == ret.op = "get_package_info"

MetadataOfFile == ArchiveMetadata(ret.path, tree[ret.path].content)

FilenameOfFile ==
    IF EndsWith(ret.path, Whl) THEN ParseWheelFilename(ret.path)
    ELSE ParseSdistFilename(ret.path)

\* C22: when the archive's metadata was found and parsed, the record's name
\* and version are the metadata's Name and Version where the metadata has
\* them, and the values of the filename where it lacks them; for wheels and
\* sdists alike.
C22_MetadataTakesPrecedence ==
    (InfoReturned /\ MetadataOfFile # EmptyDict) =>
        /\ \A k \in {kName, kVersion} \cap DOMAIN MetadataOfFile :
              /\ k \in DOMAIN ret.info
              /\ ret.info[k] = MetadataOfFile[k]
        /\ (kVersion \notin DOMAIN MetadataOfFile /\ FilenameOfFile.ok)
              => /\ kVersion \in DOMAIN ret.info
                 /\ ret.info[kVersion] = VersionStr(FilenameOfFile.value[2])

\* C23: when the metadata entry holds bytes that are not valid UTF-8, the
\* fields of its validly encoded lines (Summary) are in the record, as
\* decoding with replacement reads them.
C23_InvalidBytesReplaced ==
    (/\ InfoReturned
     /\ Contents[tree[ret.path].content].member
     /\ ~Contents[tree[ret.path].content].utf8
     /\ Contents[tree[ret.path].content].format =
           (IF EndsWith(ret.path, Whl) THEN "zip" ELSE "tgz"))
        => /\ kSummary \in DOMAIN ret.info
           /\ ret.info[kSummary] =
                ParseMetadata(Contents[tree[ret.path].content].text)[kSummary]


\* C24: store_package without overwrite never replaces a file: a step that
\* stores an upload writes a file that did not exist, so of two concurrent
\* uploads of one filename at most one writes, and a file that exists keeps
\* its bytes and its modification time while it is not removed.
C24_StoreNeverReplaces ==
    [][/\ (ret'.op = "upload" /\ ret'.status = 200 /\ tree' # tree)
            => ~tree[ret'.filename].exists
       /\ \A f \in Paths :
             (tree[f].exists /\ tree'[f].exists) => tree'[f] = tree[f]]_vars


\* the cache keys of the file p, of every modification time
KeysOf(p) == {CacheKey(p, m) : m \in 0..MaxClock}

\* C26: delete_package(f) leaves the cache entries of every other file as
\* they were, and when f does not exist it raises FileNotFoundError and
\* changes neither the storage tree nor the cache.
C26_DeleteTouchesOnlyItsFile ==
    [][(ret'.op = "delete_package" /\ ret' # ret) =>
          IF ret'.raised = "none"
          THEN \A key \in DOMAIN metadata_cache \ KeysOf(ret'.path) :
                  /\ key \in DOMAIN metadata_cache'
                  /\ metadata_cache'[key] = metadata_cache[key]
          ELSE /\ ret'.raised = "FileNotFoundError"
               /\ ~tree[ret'.path].exists
               /\ tree' = tree
               /\ metadata_cache' = metadata_cache]_vars


\* C25: once get_package_info(f) and delete_package(f) have both returned,
\* whatever their interleaving, the cache holds no entry of the deleted
\* file f, and the lookup did not fail on a key the deletion took away.
C25_NoEntryAfterDelete ==
    (BothDone /\ threads[2].raised = "none") =>
        /\ KeysOf(threads[2].path) \cap DOMAIN metadata_cache = {}
        /\ threads[1].raised = "none"

\* the token was revoked, or authenticate_token found it expired
Gone(token) ==
    \/ ret.op = "revoke_token" /\ ret.token = token /\ ret.ok
    \/ ret.op = "authenticate_token" /\ ret.token = token /\ ret.expired

\* authenticate_token accepted the token
AuthenticatedWith(token) ==
    /\ ret.op = "authenticate_token"
    /\ ret.token = token
    /\ ret.username # NoUser

IsActive(um, username) ==
    username \in DOMAIN um.users /\ um.users[username].active

\* C27: authenticate accepts only the password of an active user, and
\* authenticate_token only a stored, unexpired token of an active user, whose
\* name it returns; deactivate_user leaves the user inactive, only
\* activate_user makes an inactive user active again, and a token that was
\* revoked or found expired is never accepted afterwards.
C27_OnlyActiveUsersAuthenticate ==
    /\ [][\A username \in Usernames : \A password \in Passwords :
             (Login(username, password) /\ ret'.ok)
                => /\ IsActive(user_manager, username)
                   /\ user_manager.users[username].password = password]_vars
    /\ [][\A token \in Tokens :
             (TokenLogin(token) /\ ret'.username # NoUser)
                => /\ token \in DOMAIN user_manager.tokens
                   /\ \/ user_manager.tokens[token].expires_at = None
                      \/ clock <= user_manager.tokens[token].expires_at[1]
                   /\ ret'.username = user_manager.tokens[token].username
                   /\ IsActive(user_manager, ret'.username)]_vars
    /\ [][\A username \in Usernames :
             /\ (Deactivate(username)
                 /\ username \in DOMAIN user_manager.users)
                   => ~IsActive(user_manager', username)
             /\ (~IsActive(user_manager, username)
                 /\ IsActive(user_manager', username))
                   => Activate(username)]_vars
    /\ \A token \in Tokens :
          [](Gone(token) => []~AuthenticatedWith(token))

\* the admin logged in, was deactivated, and the admin's password and the
\* admin's token were refused afterwards
C27_Witness ==
    /\ ret.op = "authenticate"
    /\ ret.username = "admin"
    /\ ret.password = "admin"
    /\ ~ret.ok
    /\ user_manager.users["admin"].last_login # None
    /\ ~user_manager.users["admin"].active
    /\ "t-old" \notin DOMAIN user_manager.tokens

\* the tokens of the store that belong to other users than username
TokensOfOthers(um, username) ==
    {k \in DOMAIN um.tokens : um.tokens[k].username # username}

\* C28: a DELETE /api/tokens that the wrapper lets through as user u removes
\* no token of another user: every token that belonged to somebody else
\* before the request is in the store after it.
C28_RevokesOnlyOwnTokens ==
    [][\A header \in TokenHeaders : \A token \in Tokens :
          (ApiTokensDelete(header, token) /\ ret'.status # 401)
             => TokensOfOthers(user_manager, ret'.username)
                   \subseteq DOMAIN user_manager'.tokens]_vars

\* users.json can be parsed and holds the user as deactivated
FileInactive(file, username) ==
    /\ file.exists
    /\ file.loads
    /\ username \in DOMAIN file.data.users
    /\ ~file.data.users[username].active

\* C29: with the server and the command-line tool on one users.json, a user
\* that the file holds as deactivated is held as deactivated by every later
\* readable version of the file: no save of a manager that loaded earlier
\* brings the old record back.
C29_DeactivationStaysInFile ==
    [][\A username \in Usernames :
          (/\ FileInactive(user_file, username)
           /\ user_file'.exists
           /\ user_file'.loads)
             => FileInactive(user_file', username)]_vars

\* a step of load_users, by the server or by the tool
LoadStep == ServerStart \/ CliStart

\* C30: load_users over a users.json that exists leaves the file as it is,
\* unless the file was read and holds no users: a file that cannot be read
\* or parsed is not replaced by a store of the default admin.
C30_UnreadableFileKept ==
    [][(/\ LoadStep
        /\ user_file.exists
        /\ ~(user_file.loads /\ DOMAIN user_file.data.users = {}))
          => user_file' = user_file]_vars

====
